---- MODULE Spec2Model ----
(***************************************************************************)
(* CRUMBS CRC code-generation scripts (scripts/*.py).                      *)
(*                                                                         *)
(* Text is modelled at token level: a line is a sequence of tokens (each   *)
(* token a string piece of the line, whitespace being the token " "), a    *)
(* file is a sequence of lines.  Python's substring tests, str.replace,    *)
(* str.split, str.strip and the regular expressions of the scripts act on  *)
(* the token sequences.                                                    *)
(***************************************************************************)
EXTENDS Integers, Sequences, FiniteSets, TLC

VARIABLES
    \* ---- one File Converter invocation (convert_h_to_hpp, convert_c_to_cpp,
    \*      convert_header, convert_source)
    convention,     \* "nested" (generate.py) or "flat" (generate_crc8_arduino.py)
    kind,           \* "header" or "source"
    model,          \* --model, e.g. "crc-8"
    algotag,        \* --algotag
    progmem,        \* CONVERT_TO_PROGMEM
    preserve,       \* PRESERVE_C_FILES (generate.py only; the other script has no such option)
    input,          \* what the generator wrote (kept for reference)
    infile,         \* the .h / .c file on disk, or NoFile
    outfile,        \* the .hpp / .cpp file on disk, or NoFile
    lines,          \* the converter's line buffer
    pc              \* position of the converter

convVars == <<convention, kind, model, algotag, progmem, preserve,
              input, infile, outfile, lines, pc>>

VARIABLES
    \* ---- one run of a script's main()
    driver,         \* the script that runs
    request,        \* its command line
    step,           \* position in main(); "exited" once the process has ended
    pairIdx,        \* loop index (1-based) into the list main() iterates
    events,         \* what the run has done so far, in order
    exitcode,       \* exit status of the process (meaningful once step = "exited")
    raised,         \* the exception that ended the run, "" if none
    disk            \* paths of the files that exist

runVars == <<driver, request, step, pairIdx, events, exitcode, raised, disk>>

VARIABLES
    \* ---- comparison runs (compare_acecrc.py, compare_crc8.py)
    tool,           \* which comparison script owns the trees
    strict,         \* --strict of the latest run (compare_crc8.py only)
    outTree,        \* OUT_DIR: file name -> file
    refTree,        \* REF_DIR: file name -> file
    reportDir,      \* REPORT_DIR: file name -> report
    fresh           \* TRUE iff the trees are as the latest run saw them

cmpVars == <<tool, strict, outTree, refTree, reportDir, fresh>>

vars == <<convVars, runVars, cmpVars>>

\* A path of the file system: absent, or a file holding lines of text
NoFile == [exists |-> FALSE, text |-> <<>>]
File(t) == [exists |-> TRUE, text |-> t]

NoRequest ==
    [model |-> "", algos |-> <<>>, header |-> FALSE, source |-> FALSE, no_stage |-> FALSE]

\* no script is running
RunIdle ==
    /\ driver = "" /\ request = NoRequest /\ step = "" /\ pairIdx = 0
    /\ events = <<>> /\ exitcode = 0 /\ raised = "" /\ disk = {}

\* no comparison trees
CmpIdle ==
    /\ tool = "" /\ strict = FALSE /\ outTree = <<>> /\ refTree = <<>>
    /\ reportDir = <<>> /\ fresh = FALSE

\* no conversion in progress
ConvIdle ==
    /\ convention = "" /\ kind = "" /\ model = "" /\ algotag = ""
    /\ progmem = FALSE /\ preserve = FALSE /\ input = <<>>
    /\ infile = NoFile /\ outfile = NoFile /\ lines = <<>> /\ pc = ""

\* ------------------------------------------------------------------------
\* Python string operations, on token sequences
\* ------------------------------------------------------------------------

SP == " "

IsSpace(t) == t = SP

\* pat in line
Contains(line, pat) ==
    \E i \in 1..(Len(line) - Len(pat) + 1) : SubSeq(line, i, i + Len(pat) - 1) = pat

\* line.startswith(pat)
StartsWith(line, pat) ==
    Len(line) >= Len(pat) /\ SubSeq(line, 1, Len(pat)) = pat

RECURSIVE LStrip(_)
LStrip(line) ==
    IF line # <<>> /\ IsSpace(Head(line)) THEN LStrip(Tail(line)) ELSE line

RECURSIVE RStrip(_)
RStrip(line) ==
    IF line # <<>> /\ IsSpace(line[Len(line)])
    THEN RStrip(SubSeq(line, 1, Len(line) - 1))
    ELSE line

Strip(line) == RStrip(LStrip(line))

\* line.replace(old, new, count); count < 0 replaces every occurrence
RECURSIVE StrReplace(_, _, _, _)
StrReplace(line, old, new, count) ==
    IF line = <<>> \/ count = 0 THEN line
    ELSE IF StartsWith(line, old)
         THEN new \o StrReplace(SubSeq(line, Len(old) + 1, Len(line)), old, new,
                                IF count < 0 THEN count ELSE count - 1)
         ELSE <<Head(line)>> \o StrReplace(Tail(line), old, new, count)

\* line.split(): the maximal runs of non-whitespace, in order
RECURSIVE SplitFrom(_, _)
SplitFrom(line, cur) ==
    IF line = <<>> THEN (IF cur = <<>> THEN <<>> ELSE <<cur>>)
    ELSE IF IsSpace(Head(line))
         THEN (IF cur = <<>> THEN <<>> ELSE <<cur>>) \o SplitFrom(Tail(line), <<>>)
         ELSE SplitFrom(Tail(line), cur \o <<Head(line)>>)

Split(line) == SplitFrom(line, <<>>)

\* index of the first line satisfying P, 0 when there is none
FirstIdx(ls, P(_)) ==
    IF \E i \in 1..Len(ls) : P(ls[i])
    THEN CHOOSE i \in 1..Len(ls) : P(ls[i]) /\ \A j \in 1..(i - 1) : ~P(ls[j])
    ELSE 0

\* index of the last line satisfying P, 0 when there is none
LastIdx(ls, P(_)) ==
    IF \E i \in 1..Len(ls) : P(ls[i])
    THEN CHOOSE i \in 1..Len(ls) : P(ls[i]) /\ \A j \in (i + 1)..Len(ls) : ~P(ls[j])
    ELSE 0

\* lines[:a] + new + lines[b:] with 0-based Python slice bounds a, b
Splice(ls, a, b, new) ==
    SubSeq(ls, 1, a) \o new \o SubSeq(ls, b + 1, Len(ls))

SetLine(ls, i, l) == [ls EXCEPT ![i] = l]

\* ------------------------------------------------------------------------
\* Names derived from --model / --algotag
\* ------------------------------------------------------------------------

MODELS == <<"crc-8", "crc-16-ccitt", "crc-16-modbus", "crc-32">>
ALGOTAGS == <<"bit", "nibble", "nibblem", "byte">>

Range(s) == {s[i] : i \in 1..Len(s)}

\* model.replace("-", "")
ModelRoot(m) ==
    CASE m = "crc-8" -> "crc8"
      [] m = "crc-16-ccitt" -> "crc16ccitt"
      [] m = "crc-16-modbus" -> "crc16modbus"
      [] m = "crc-32" -> "crc32"
      [] OTHER -> m

\* str.upper() of the names in use
Upper(s) ==
    CASE s = "crc8" -> "CRC8"
      [] s = "crc16ccitt" -> "CRC16CCITT"
      [] s = "crc16modbus" -> "CRC16MODBUS"
      [] s = "crc32" -> "CRC32"
      [] s = "bit" -> "BIT"
      [] s = "nibble" -> "NIBBLE"
      [] s = "nibblem" -> "NIBBLEM"
      [] s = "byte" -> "BYTE"
      [] OTHER -> s

Fileroot(m, tag) == ModelRoot(m) \o "_" \o tag

\* fileroot.upper()
FilerootUpper(m, tag) == Upper(ModelRoot(m)) \o "_" \o Upper(tag)

\* old_guard, the text "<MODELROOT>_<ALGOTAG>_H" (one token)
OldGuard(m, tag) == <<FilerootUpper(m, tag) \o "_H">>

\* new_guard of generate.py: "ACE_CRC_" + old_guard + "PP"
NewGuardNested(m, tag) == <<"ACE_CRC_">> \o OldGuard(m, tag) \o <<"PP">>

\* new_guard of generate_crc8_arduino.py: old_guard + "PP"
NewGuardFlat(m, tag) == OldGuard(m, tag) \o <<"PP">>

\* datetime.now().strftime("%c")
Now == "<%c>"

\* ------------------------------------------------------------------------
\* generate.py: helpers
\* ------------------------------------------------------------------------

autogen_comment_lines ==
    << <<SP, "*", SP, "Auto converted to", SP, "Arduino C++ on", SP, Now>>,
       <<SP, "*", SP, "by AceCRC (https://github.com/bxparks/AceCRC).">>,
       <<SP, "*", SP, "DO NOT EDIT">> >>

insert_before_first_match(ls, predicate(_), new_lines) ==
    LET idx == FirstIdx(ls, predicate)
    IN  IF idx # 0
        THEN SubSeq(ls, 1, idx - 1) \o new_lines \o SubSeq(ls, idx, Len(ls))
        ELSE ls \o new_lines

\* start_idx is 0-based, as in the code
replace_line_with(ls, start_idx, count, new_lines) ==
    Splice(ls, start_idx, start_idx + 1, new_lines)

replace_range_with(ls, start_idx, count, new_lines) ==
    Splice(ls, start_idx, start_idx + count, new_lines)

IsCommentCloserNested(l) == Contains(l, <<SP, "*/">>)

IsIfdefCplusplus(l) == StartsWith(Strip(l), <<"#ifdef __cplusplus">>)

\* ------------------------------------------------------------------------
\* generate.py: convert_h_to_hpp, steps 1..8
\* ------------------------------------------------------------------------

H1_InsertComment(ls) ==
    insert_before_first_match(ls, IsCommentCloserNested, autogen_comment_lines)

H2_RenameIfndefOnly(ls, old_guard, new_guard) ==
    LET IsIfndef(l) == Contains(l, <<"#ifndef", SP>> \o old_guard)
        g == FirstIdx(ls, IsIfndef)
    IN  IF g # 0 /\ g + 1 <= Len(ls)
        THEN [ls EXCEPT ![g] = StrReplace(ls[g], old_guard, new_guard, -1)]
        ELSE ls

H2_RenameGuard(ls, old_guard, new_guard) ==
    LET IsIfndef(l) == Contains(l, <<"#ifndef", SP>> \o old_guard)
        g == FirstIdx(ls, IsIfndef)
    IN  IF g # 0 /\ g + 1 <= Len(ls)
        THEN [ls EXCEPT ![g] = StrReplace(ls[g], old_guard, new_guard, -1),
                        ![g + 1] = StrReplace(ls[g + 1], old_guard, new_guard, -1)]
        ELSE ls

ns_open_block(fileroot) ==
    << <<"namespace", SP, "ace_crc", SP, "{">>,
       <<"namespace", SP, fileroot, SP, "{">> >>

H3_FirstCppBlock(ls, fileroot) ==
    LET i == FirstIdx(ls, IsIfdefCplusplus)
    IN  IF i # 0 THEN replace_range_with(ls, i - 1, 3, ns_open_block(fileroot))
        ELSE ls

IsAlgoDefineNested(l) ==
    Contains(l, <<"CRC_ALGO">>) /\ StartsWith(Strip(l), <<"#define">>)

ConstDecl(name, value) ==
    <<"static", SP, "const", SP, "uint8_t", SP>> \o name \o <<SP, "=", SP>>
        \o value \o <<";">>

H4_AlgoDefine(ls) ==
    LET i == FirstIdx(ls, IsAlgoDefineNested)
    IN  IF i # 0 /\ Len(Split(ls[i])) >= 3
        THEN SetLine(ls, i, ConstDecl(Split(ls[i])[2], Split(ls[i])[3]))
        ELSE ls

oneshot_body ==
    << <<"inline", SP, "crc_t", SP, "crc_calculate", "(const void *data, size_t data_len) {">>,
       <<SP, SP, "crc_t", SP, "crc", SP, "=", SP, "crc_init", "();">>,
       <<SP, SP, "crc", SP, "=", SP, "crc_update", "(crc, data, data_len);">>,
       <<SP, SP, "return", SP, "crc_finalize", "(crc);">>,
       <<"}">> >>

oneshot_block(fileroot) ==
    << <<"/**">>,
       <<SP, "*", SP, "Calculate the crc in one-shot.">>,
       <<SP, "*", SP, "This is a convenience function added by AceCRC.">>,
       <<SP, "*">>,
       <<SP, "*", SP, "\\param[in] data     Pointer to a buffer of \\a data_len bytes.">>,
       <<SP, "*", SP, "\\param[in] data_len Number of bytes in the \\a data buffer.">>,
       <<SP, "*/">> >>
    \o oneshot_body \o
    << <<>>,
       <<"}", SP, "//", SP, fileroot>>,
       <<"}", SP, "//", SP, "ace_crc">> >>

H5_SecondCppBlock(ls, fileroot) ==
    LET i == FirstIdx(ls, IsIfdefCplusplus)
    IN  IF i # 0 THEN replace_range_with(ls, i - 1, 3, oneshot_block(fileroot))
        ELSE ls

H6_EndifGuard(ls, old_guard, new_guard) ==
    LET IsEndifGuard(l) == Contains(l, <<"#endif">>) /\ Contains(l, old_guard)
        i == FirstIdx(ls, IsEndifGuard)
    IN  IF i # 0 THEN SetLine(ls, i, StrReplace(ls[i], old_guard, new_guard, -1))
        ELSE ls

\* the indentation of l: l[:len(l) - len(l.lstrip())]
Indent(l) == SubSeq(l, 1, Len(l) - Len(LStrip(l)))

StripStaticAndIndent(l) ==
    IF StartsWith(LStrip(l), <<"static", SP>>)
    THEN SubSeq(LStrip(l), 3, Len(LStrip(l)))
    ELSE l

StripStaticLine(l) ==
    IF StartsWith(LStrip(l), <<"static", SP>>)
    THEN Indent(l) \o SubSeq(LStrip(l), 3, Len(LStrip(l)))
    ELSE l

H7_StripStatic(ls) == [i \in 1..Len(ls) |-> StripStaticLine(ls[i])]

TypedefFast == <<"typedef", SP, "uint", "_fast">>
TypedefUint == <<"typedef", SP, "uint">>

H8_Typedef(ls) ==
    LET IsTypedef(l) == Contains(l, TypedefFast)
        i == FirstIdx(ls, IsTypedef)
    IN  IF i # 0 THEN SetLine(ls, i, StrReplace(ls[i], TypedefFast, TypedefUint, 1))
        ELSE ls

\* the text written to <fileroot>.hpp
convert_h_to_hpp(ls, m, tag) ==
    LET fr == Fileroot(m, tag)
        og == OldGuard(m, tag)
        ng == NewGuardNested(m, tag)
    IN  H8_Typedef(H7_StripStatic(H6_EndifGuard(
            H5_SecondCppBlock(H4_AlgoDefine(H3_FirstCppBlock(
                H2_RenameGuard(H1_InsertComment(ls), og, ng), fr)), fr), og, ng)))


\* ------------------------------------------------------------------------
\* generate_crc8_arduino.py: helpers
\* ------------------------------------------------------------------------

\* Tokens whose first character is not a word character ([A-Za-z0-9_])
NonWordStart ==
    {SP, "*", "*/", "/*", "/**", "//", "=", "= {", ";", ",", "{", "}", "[", "]",
     "(", ")", ");", "();", "(void)", "(crc);", "(crc, data, data_len);",
     "(const void *data, size_t data_len) {", "^", "&", "+", "\"C\"",
     "#ifndef", "#define", "#endif", "#include", "#ifdef __cplusplus",
     "<stdlib.h>", "#if defined(ARDUINO_ARCH_AVR) || defined(ARDUINO_ARCH_SAMD)",
     "<avr/pgmspace.h>", "<pgmspace.h>", "#else", ")))",
     "\\param[in] data     Pointer to a buffer of \\a data_len bytes.",
     "\\param[in] data_len Number of bytes in the \\a data buffer.",
     "// header file converted by generator", "// header file converted by AceCRC",
     "/* include the header file generated with pycrc */"}

\* Tokens whose last character is not a word character
NonWordEnd ==
    {SP, "*", "*/", "/*", "/**", "//", "=", "= {", ";", ",", "{", "}", "[", "]",
     "(", ")", ");", "();", "(void)", "(crc);", "(crc, data, data_len);",
     "(const void *data, size_t data_len) {", "^", "&", "+", "\"C\"",
     "<stdlib.h>", "#if defined(ARDUINO_ARCH_AVR) || defined(ARDUINO_ARCH_SAMD)",
     "<avr/pgmspace.h>", "<pgmspace.h>", ")))",
     "Calculate the crc in one-shot.",
     "Convenience helper exposed in the global namespace.",
     "This is a convenience function added by AceCRC.",
     "by AceCRC (https://github.com/bxparks/AceCRC).",
     "\\param[in] data     Pointer to a buffer of \\a data_len bytes.",
     "\\param[in] data_len Number of bytes in the \\a data buffer.",
     "/* include the header file generated with pycrc */", "<%c>"}

\* The quoted file names of include lines: "<fileroot>.h", "<fileroot>.hpp"
QuotedNames ==
    UNION {{"\"" \o Fileroot(m, tag) \o ".h\"", "\"" \o Fileroot(m, tag) \o ".hpp\""} :
           m \in Range(MODELS), tag \in Range(ALGOTAGS)}

WordStart(t) == t \notin (NonWordStart \cup QuotedNames)

WordEndNoUnderscore(t) == t \notin (NonWordEnd \cup QuotedNames \cup {"_"})

WordEnd(t) == t \notin (NonWordEnd \cup QuotedNames)

\* re.sub(r"\b<word>\b", repl, s)
RECURSIVE SubWordFrom(_, _, _, _)
SubWordFrom(line, prevEndsWord, word, repl) ==
    IF line = <<>> THEN <<>>
    ELSE LET t == Head(line)
             nextStartsWord == Len(line) >= 2 /\ WordStart(line[2])
         IN  IF t = word /\ ~prevEndsWord /\ ~nextStartsWord
             THEN repl \o SubWordFrom(Tail(line), WordEnd(t), word, repl)
             ELSE <<t>> \o SubWordFrom(Tail(line), WordEnd(t), word, repl)

SubWord(line, word, repl) == SubWordFrom(line, FALSE, word, repl)

\* Tokens "_<NAME>" with <NAME> in [A-Z0-9_]+ : the rest of a CRC_ALGO_* name
AlgoSuffix == {"_TABLE_DRIVEN", "_BIT_BY_BIT_FAST", "_BIT_BY_BIT"}

\* Tokens made of characters of [A-Z0-9_] only
UpperTokens ==
    AlgoSuffix \cup {"_", "_ALGO", "CRC_ALGO", "ACE_CRC_", "PP", "1", "16"}
    \cup UNION {{FilerootUpper(m, tag), FilerootUpper(m, tag) \o "_H"} :
                m \in Range(MODELS), tag \in Range(ALGOTAGS)}

\* The number of tokens of [A-Z0-9_]+ that line has from its k-th token on
RECURSIVE UpperRun(_, _)
UpperRun(line, k) ==
    IF k <= Len(line) /\ line[k] \in UpperTokens THEN 1 + UpperRun(line, k + 1) ELSE 0

\* re.sub(r"\bCRC_ALGO_([A-Z0-9_]+)\b", lambda m: f"{prefix.upper()}_ALGO_{m.group(1)}", s)
\* the group is the whole run of [A-Z0-9_] after "CRC_ALGO_": no shorter one
\* ends at a word boundary
RECURSIVE SubAlgoFrom(_, _, _)
SubAlgoFrom(line, prevEndsWord, upperPrefix) ==
    IF line = <<>> THEN <<>>
    ELSE LET t == Head(line)
             n == UpperRun(line, 2)
         IN  IF /\ t = "CRC_ALGO" /\ ~prevEndsWord
                /\ n >= 1 /\ line[2] \in (AlgoSuffix \cup {"_", "_ALGO"})
                /\ (n >= 2 \/ line[2] # "_")
                /\ ~(Len(line) >= n + 2 /\ WordStart(line[n + 2]))
             THEN <<upperPrefix, "_ALGO">> \o SubSeq(line, 2, n + 1)
                      \o SubAlgoFrom(SubSeq(line, n + 2, Len(line)), TRUE, upperPrefix)
             ELSE <<t>> \o SubAlgoFrom(Tail(line), WordEnd(t), upperPrefix)

wreplaceWithoutCalculate(l, prefix, upperPrefix) ==
    SubAlgoFrom(
      SubWord(SubWord(SubWord(SubWord(SubWord(l,
        "crc_t", <<prefix, "_t">>),
        "crc_init", <<prefix, "_init">>),
        "crc_update", <<prefix, "_update">>),
        "crc_finalize", <<prefix, "_finalize">>),
        "crc_table", <<prefix, "_", "crc_table">>),
      FALSE, upperPrefix)

\* convert_header.wreplace / convert_source.wreplace (the two are the same text)
wreplace(l, prefix, upperPrefix) ==
    SubAlgoFrom(
      SubWord(SubWord(SubWord(SubWord(SubWord(SubWord(l,
        "crc_t", <<prefix, "_t">>),
        "crc_init", <<prefix, "_init">>),
        "crc_update", <<prefix, "_update">>),
        "crc_finalize", <<prefix, "_finalize">>),
        "crc_calculate", <<prefix, "_calculate">>),
        "crc_table", <<prefix, "_", "crc_table">>),
      FALSE, upperPrefix)

autogen_comment ==
    << <<SP, "*", SP, "Auto converted to", SP, "Arduino C++ on", SP, Now>>,
       <<SP, "*", SP, "DO NOT EDIT">> >>

IsCommentCloserFlat(l) == Contains(l, <<"*/">>)

insert_auto_comment(ls) ==
    LET idx == FirstIdx(ls, IsCommentCloserFlat)
    IN  IF idx # 0
        THEN SubSeq(ls, 1, idx - 1) \o autogen_comment \o SubSeq(ls, idx, Len(ls))
        ELSE ls

\* ------------------------------------------------------------------------
\* generate_crc8_arduino.py: convert_header
\* ------------------------------------------------------------------------

F2_RenameGuard(ls, old_guard, new_guard) ==
    [i \in 1..Len(ls) |-> StrReplace(ls[i], old_guard, new_guard, -1)]

extern_c_open ==
    << <<"#ifdef __cplusplus">>,
       <<"extern", SP, "\"C\"", SP, "{">>,
       <<"#endif">> >>

\* lines[i : i + 3] = [...]
F3_FirstCppBlock(ls) ==
    LET i == FirstIdx(ls, IsIfdefCplusplus)
    IN  IF i # 0 THEN Splice(ls, i - 1, i + 2, extern_c_open) ELSE ls

IsAlgoDefineFlat(l) == StartsWith(Strip(l), <<"#define", SP, "CRC_ALGO">>)

\* parts[1] / parts[2] raise IndexError on a define without a value
F4_Raises(ls) ==
    LET i == FirstIdx(ls, IsAlgoDefineFlat)
    IN  i # 0 /\ Len(Split(ls[i])) < 3

F4_AlgoDefine(ls) ==
    LET i == FirstIdx(ls, IsAlgoDefineFlat)
    IN  IF i # 0
        THEN SetLine(ls, i, ConstDecl(Split(ls[i])[2], Split(ls[i])[3]))
        ELSE ls

F5_StripStatic(ls) == [i \in 1..Len(ls) |-> StripStaticLine(ls[i])]

flat_oneshot_block ==
    << <<"/**">>,
       <<SP, "*", SP, "Calculate the crc in one-shot.">>,
       <<SP, "*", SP, "Convenience helper exposed in the global namespace.">>,
       <<SP, "*">>,
       <<SP, "*", SP, "\\param[in] data     Pointer to a buffer of \\a data_len bytes.">>,
       <<SP, "*", SP, "\\param[in] data_len Number of bytes in the \\a data buffer.">>,
       <<SP, "*/">> >>
    \o oneshot_body

\* lines[insert_at:insert_at] = block, before the last #ifdef __cplusplus
F6_InsertOneshot(ls) ==
    LET i == LastIdx(ls, IsIfdefCplusplus)
        insert_at == IF i # 0 THEN i - 1 ELSE Len(ls)
    IN  Splice(ls, insert_at, insert_at, flat_oneshot_block)

F7_Typedef(ls) ==
    [i \in 1..Len(ls) |->
        IF Contains(ls[i], TypedefFast)
        THEN StrReplace(ls[i], TypedefFast, TypedefUint, -1)
        ELSE ls[i]]

F8_Prefix(ls, prefix, upperPrefix) ==
    [i \in 1..Len(ls) |-> wreplace(ls[i], prefix, upperPrefix)]

\* the buffer when the CRC_ALGO step is reached
convert_header_to_F3(ls, m, tag) ==
    F3_FirstCppBlock(F2_RenameGuard(insert_auto_comment(ls),
                                    OldGuard(m, tag), NewGuardFlat(m, tag)))

\* whether convert_header raises (IndexError) before it writes
convert_header_raises(ls, m, tag) == F4_Raises(convert_header_to_F3(ls, m, tag))

\* the text written to <fileroot>.hpp (when convert_header does not raise)
convert_header(ls, m, tag) ==
    F8_Prefix(F7_Typedef(F6_InsertOneshot(F5_StripStatic(F4_AlgoDefine(
                  convert_header_to_F3(ls, m, tag))))),
              Fileroot(m, tag), FilerootUpper(m, tag))


\* ------------------------------------------------------------------------
\* Source conversion, both scripts
\* ------------------------------------------------------------------------

\* the tokens "<fileroot>.h" and "<fileroot>.hpp" of an include line, in quotes
QuotedH(fileroot) == "\"" \o fileroot \o ".h\""
QuotedHpp(fileroot) == "\"" \o fileroot \o ".hpp\""

\* include_pattern = f'#include "{fileroot}.h"'
include_pattern(fileroot) == <<"#include", SP, QuotedH(fileroot)>>

\* loop_var
LoopVar(tag) == IF tag = "bit" THEN "i" ELSE "tbl_idx"

NoProgmemWithoutNibblem(tag, toggle) == (tag = "bit") \/ ~toggle

\* generate.py: no_progmem
NoProgmem(tag, toggle) == (tag \in {"bit", "nibblem"}) \/ ~toggle

UseProgmemForAllTables(tag, toggle) == toggle /\ tag # "bit"

\* generate_crc8_arduino.py: use_progmem
UseProgmem(tag, toggle) == toggle /\ tag \in {"nibble", "byte"}

\* generate.py main: pgm_map.get(model); "" stands for None
PgmReadFunc(m) ==
    CASE m = "crc-8" -> "pgm_read_byte"
      [] m = "crc-16-ccitt" -> "pgm_read_word"
      [] m = "crc-16-modbus" -> "pgm_read_word"
      [] m = "crc-32" -> "pgm_read_dword"
      [] OTHER -> ""

pgm_block ==
    << <<"#if defined(ARDUINO_ARCH_AVR) || defined(ARDUINO_ARCH_SAMD)">>,
       <<SP, SP, "#include", SP, "<avr/pgmspace.h>">>,
       <<"#else">>,
       <<SP, SP, "#include", SP, "<pgmspace.h>">>,
       <<"#endif">> >>

UnsignedIntDecl(loop_var) == <<"unsigned", SP, "int", SP, loop_var, ";">>
Uint8Decl(loop_var) == <<SP, SP, SP, SP, "uint8_t", SP, loop_var, ";">>

NarrowEveryLoopVar(ls, loop_var) ==
    [i \in 1..Len(ls) |->
        IF Contains(ls[i], UnsignedIntDecl(loop_var)) THEN Uint8Decl(loop_var) ELSE ls[i]]

\* the first line containing "unsigned int <loop_var>;" becomes "    uint8_t <loop_var>;"
NarrowLoopVar(ls, loop_var) ==
    LET IsDecl(l) == Contains(l, UnsignedIntDecl(loop_var))
        i == FirstIdx(ls, IsDecl)
    IN  IF i # 0 THEN SetLine(ls, i, Uint8Decl(loop_var)) ELSE ls

IsTableInit(l) == Contains(l, <<"crc_table">>) /\ Contains(l, <<"=", SP, "{">>)

AnnotateTableOrAppend(ls, count) ==
    LET i == FirstIdx(ls, IsTableInit)
    IN  IF i # 0
        THEN SetLine(ls, i, StrReplace(ls[i], <<"=", SP, "{">>,
                                       <<"PROGMEM", SP, "=", SP, "{">>, count))
        ELSE Append(ls, <<"PROGMEM">>)

\* the first line with "crc_table" and "= {": "= {" becomes "PROGMEM = {"
AnnotateTable(ls, count) ==
    LET i == FirstIdx(ls, IsTableInit)
    IN  IF i # 0
        THEN SetLine(ls, i, StrReplace(ls[i], <<"=", SP, "{">>,
                                       <<"PROGMEM", SP, "=", SP, "{">>, count))
        ELSE ls

\* index of the first "]" of line at or after position i, 0 when there is none
RECURSIVE FirstClose(_, _)
FirstClose(line, i) ==
    IF i > Len(line) THEN 0
    ELSE IF line[i] = "]" THEN i ELSE FirstClose(line, i + 1)

\* f"({pgm_read_func}(crc_table + ({m.group(1)})))"
PgmCall(reader, group) ==
    <<"(", reader, "(", "crc_table", SP, "+", SP, "(">> \o group \o <<")))">>

\* re.compile(r"crc_table\[(tbl_idx[^\]]*)\]").sub(
\*     lambda m: f"({reader}(crc_table + ({m.group(1)})))", line)
RECURSIVE SubIndex(_, _)
SubIndex(line, reader) ==
    IF line = <<>> THEN <<>>
    ELSE LET q == FirstClose(line, 4)
         IN  IF StartsWith(line, <<"crc_table", "[", "tbl_idx">>) /\ q # 0
             THEN PgmCall(reader, SubSeq(line, 3, q - 1))
                      \o SubIndex(SubSeq(line, q + 1, Len(line)), reader)
             ELSE <<Head(line)>> \o SubIndex(Tail(line), reader)

\* for every line with "crc_table[": pattern.sub(...)
RewriteIndexes(ls, reader) ==
    [i \in 1..Len(ls) |->
        IF Contains(ls[i], <<"crc_table", "[">>) THEN SubIndex(ls[i], reader)
        ELSE ls[i]]

IsBlank(l) == Strip(l) = <<>>

\* generate.py: the namespace-open block after the first blank line, or at the end
InsertNamespaceOpen(ls, fileroot) ==
    LET i == FirstIdx(ls, IsBlank)
        ns_block == << <<"namespace", SP, "ace_crc", SP, "{">>,
                       <<"namespace", SP, fileroot, SP, "{">>,
                       <<>> >>
    IN  IF i # 0 THEN SubSeq(ls, 1, i) \o ns_block \o SubSeq(ls, i + 1, Len(ls))
        ELSE ls \o << <<>> >> \o ns_block

\* generate.py: the namespace-close lines appended at EOF
AppendNamespaceClose(ls, fileroot) ==
    ls \o << <<>>,
             <<"}", SP, "//", SP, fileroot>>,
             <<"}", SP, "//", SP, "ace_crc">> >>

\* generate.py: the self-include line is replaced as a whole
ReplaceIncludeNested(ls, fileroot) ==
    LET IsInc(l) == Contains(l, include_pattern(fileroot))
        i == FirstIdx(ls, IsInc)
    IN  IF i # 0
        THEN SetLine(ls, i, <<"#include", SP, QuotedHpp(fileroot), SP,
                              "// header file converted by AceCRC">>)
        ELSE ls

\* include_idx (1-based; 0 stands for None)
IncludeIdx(ls, fileroot) ==
    LET IsInc(l) == Contains(l, include_pattern(fileroot))
    IN  FirstIdx(ls, IsInc)

\* generate.py: the text written to <fileroot>.cpp
convert_c_to_cpp(ls, m, tag, toggle, pgm_read_func) ==
    LET fr == Fileroot(m, tag)
        s1 == insert_before_first_match(ls, IsCommentCloserNested, autogen_comment_lines)
        include_idx == IncludeIdx(s1, fr)
        s2 == ReplaceIncludeNested(s1, fr)
        loop_var == LoopVar(tag)
    IN  IF NoProgmem(tag, toggle)
        THEN AppendNamespaceClose(
                 NarrowLoopVar(InsertNamespaceOpen(s2, fr), loop_var), fr)
        ELSE LET s3 == IF include_idx # 0
                       THEN Splice(s2, include_idx - 1, include_idx - 1, pgm_block)
                       ELSE s2
             IN  AppendNamespaceClose(
                     NarrowLoopVar(
                         RewriteIndexes(AnnotateTable(InsertNamespaceOpen(s3, fr), 1),
                                        pgm_read_func),
                         loop_var), fr)

\* generate_crc8_arduino.py: the self-include line is replaced as a whole
ReplaceIncludeFlat(ls, fileroot) ==
    LET IsInc(l) == Contains(l, include_pattern(fileroot))
        i == FirstIdx(ls, IsInc)
    IN  IF i # 0
        THEN SetLine(ls, i, <<"#include", SP, QuotedHpp(fileroot), SP,
                              "// header file converted by generator">>)
        ELSE ls

\* generate_crc8_arduino.py: the pgmspace block before the first line
\* that starts with "#include"
InsertPgmIncludesFlat(ls) ==
    LET IsInclude(l) == StartsWith(l, <<"#include">>)
        i == FirstIdx(ls, IsInclude)
    IN  IF i # 0 THEN Splice(ls, i - 1, i - 1, pgm_block) ELSE ls

\* generate_crc8_arduino.py: the text written to <fileroot>.cpp
convert_source(ls, m, tag, toggle, pgm_read) ==
    LET fr == Fileroot(m, tag)
        s2 == ReplaceIncludeFlat(insert_auto_comment(ls), fr)
        loop_var == LoopVar(tag)
        use_progmem == UseProgmem(tag, toggle)
        s3 == IF use_progmem THEN InsertPgmIncludesFlat(s2) ELSE s2
        s4 == NarrowLoopVar(s3, loop_var)
        s5 == IF use_progmem THEN RewriteIndexes(AnnotateTable(s4, -1), pgm_read)
              ELSE s4
    IN  F8_Prefix(s5, fr, FilerootUpper(m, tag))

\* ------------------------------------------------------------------------
\* Generator output: a pycrc header for (model, algotag), and damaged
\* variants of it (lines missing, the CRC_ALGO define without its value)
\* ------------------------------------------------------------------------

MaxDrop == 2

HeaderTemplate(m, tag, withValue) ==
    << <<"/**">>,
       <<SP, "*/">>,
       <<"#ifndef", SP>> \o OldGuard(m, tag),
       <<"#define", SP>> \o OldGuard(m, tag),
       <<"#ifdef __cplusplus">>,
       <<"extern", SP, "\"C\"", SP, "{">>,
       <<"#endif">>,
       IF withValue THEN <<"#define", SP, "CRC_ALGO", "_TABLE_DRIVEN", SP, "1">>
                    ELSE <<"#define", SP, "CRC_ALGO", "_TABLE_DRIVEN">>,
       <<"typedef", SP, "uint", "_fast", "8_t", SP, "crc_t", ";">>,
       <<"static", SP, "inline", SP, "crc_t", SP, "crc_init", "(void)">>,
       <<"crc_t", SP, "crc_update", "(", "crc_t", SP, "crc", ");">>,
       <<"#ifdef __cplusplus">>,
       <<"}">>,
       <<"#endif">>,
       <<"#endif", SP, "/*", SP>> \o OldGuard(m, tag) \o <<SP, "*/">> >>

RECURSIVE KeepFrom(_, _, _)
KeepFrom(ls, dropped, i) ==
    IF i > Len(ls) THEN <<>>
    ELSE (IF i \in dropped THEN <<>> ELSE <<ls[i]>>) \o KeepFrom(ls, dropped, i + 1)

\* ls without the lines whose index is in dropped
Without(ls, dropped) == KeepFrom(ls, dropped, 1)

RECURSIVE DropSets(_, _)
DropSets(n, k) ==
    IF k = 0 THEN {{}}
    ELSE DropSets(n, k - 1) \cup
         {S \cup {i} : S \in DropSets(n, k - 1), i \in 1..n}

\* template with up to k of its lines missing
DamagedBy(template, k) ==
    {Without(template, d) : d \in DropSets(Len(template), k)}

Damaged(template) == DamagedBy(template, MaxDrop)

HeaderInputs(m, tag) ==
    Damaged(HeaderTemplate(m, tag, TRUE)) \cup Damaged(HeaderTemplate(m, tag, FALSE))

\* ------------------------------------------------------------------------
\* One File Converter invocation
\* ------------------------------------------------------------------------

\* whether the conversion of buffer ls raises before the write
ConversionRaises(ls) ==
    convention = "flat" /\ kind = "header" /\ convert_header_raises(ls, model, algotag)

\* the buffer the conversion of ls ends with
ConversionOf(ls) ==
    CASE convention = "nested" /\ kind = "header" -> convert_h_to_hpp(ls, model, algotag)
      [] convention = "flat" /\ kind = "header" -> convert_header(ls, model, algotag)
      [] convention = "nested" /\ kind = "source" ->
             convert_c_to_cpp(ls, model, algotag, progmem, PgmReadFunc(model))
      [] convention = "flat" /\ kind = "source" ->
             convert_source(ls, model, algotag, progmem, "pgm_read_byte")

\* lines = hfile.read_text().splitlines()
ReadText ==
    /\ pc = "start"
    /\ infile.exists
    /\ lines' = infile.text
    /\ pc' = "loaded"
    /\ UNCHANGED <<convention, kind, model, algotag, progmem, preserve, input,
                   infile, outfile>>
    /\ UNCHANGED <<runVars, cmpVars>>

\* every edit of the line buffer, up to the write
Convert ==
    /\ pc = "loaded"
    /\ IF ConversionRaises(lines)
       THEN pc' = "failed" /\ UNCHANGED lines
       ELSE pc' = "converted" /\ lines' = ConversionOf(lines)
    /\ UNCHANGED <<convention, kind, model, algotag, progmem, preserve, input,
                   infile, outfile>>
    /\ UNCHANGED <<runVars, cmpVars>>

\* out.write_text("\n".join(lines) + "\n")
WriteText ==
    /\ pc = "converted"
    /\ outfile' = File(lines)
    /\ pc' = IF convention = "nested" THEN "written" ELSE "done"
    /\ UNCHANGED <<convention, kind, model, algotag, progmem, preserve, input,
                   infile, lines>>
    /\ UNCHANGED <<runVars, cmpVars>>

UnlinkAlways(f, keep) == NoFile

\* if not PRESERVE_C_FILES: hfile.unlink()
UnlinkUnlessPreserved(f, keep) == IF keep THEN f ELSE NoFile

Unlink ==
    /\ pc = "written"
    /\ infile' = UnlinkUnlessPreserved(infile, preserve)
    /\ pc' = "done"
    /\ UNCHANGED <<convention, kind, model, algotag, progmem, preserve, input,
                   outfile, lines>>
    /\ UNCHANGED <<runVars, cmpVars>>

\* The state before a conversion: the generator has written `input`
InitConverter(k, toggles, Inputs(_, _)) ==
    /\ convention \in {"nested", "flat"}
    /\ kind = k
    /\ model \in (IF convention = "nested" THEN Range(MODELS) ELSE {"crc-8"})
    /\ algotag \in Range(ALGOTAGS)
    /\ progmem \in toggles
    /\ preserve \in (IF convention = "nested" THEN BOOLEAN ELSE {FALSE})
    /\ input \in Inputs(model, algotag)
    /\ infile = File(input)
    /\ outfile = NoFile
    /\ lines = <<>>
    /\ pc = "start"
    /\ RunIdle /\ CmpIdle

InitHeader == InitConverter("header", {TRUE}, HeaderInputs)

NextHeader == ReadText \/ Convert \/ WriteText \/ Unlink

SpecHeader == InitHeader /\ [][NextHeader]_vars


\* ------------------------------------------------------------------------
\* Generator output: a pycrc source for (model, algotag), damaged variants
\* of it, and one-line files made of table-index pieces
\* ------------------------------------------------------------------------

MaxChunks == 4

SourceTemplate(m, tag) ==
    << <<"/**">>,
       <<SP, "*/">>,
       <<"#include", SP, QuotedH(Fileroot(m, tag)), SP,
         "/*", SP, "include the header file generated with pycrc", SP, "*/">>,
       <<"#include", SP, "<stdlib.h>">>,
       <<>>,
       <<"static", SP, "const", SP, "crc_t", SP, "crc_table", "[", "16", "]",
         SP, "=", SP, "{">>,
       <<"crc_t", SP, "crc_update", "(", "crc_t", SP, "crc", ")">>,
       <<SP, SP, SP, SP, "unsigned", SP, "int", SP, "i", ";">>,
       <<SP, SP, SP, SP, "unsigned", SP, "int", SP, "tbl_idx", ";">>,
       <<SP, SP, SP, SP, "crc", SP, "=", SP, "crc_table", "[", "tbl_idx", SP, "&", SP,
         "0x0f", "]", SP, "^", SP, "crc", ";">> >>

\* pieces of a line that indexes the table
IndexChunks ==
    { <<"crc_table", "[", "tbl_idx">>,
      <<"crc_table", "[", "i">>,
      <<"]">>,
      <<SP, "&", SP, "0x0f">> }

RECURSIVE ChunkLines(_)
ChunkLines(n) ==
    IF n = 0 THEN {<<>>}
    ELSE ChunkLines(n - 1) \cup {l \o c : l \in ChunkLines(n - 1), c \in IndexChunks}

SourceInputs(m, tag) ==
    Damaged(SourceTemplate(m, tag)) \cup {<<l>> : l \in ChunkLines(MaxChunks)}

InitSource == InitConverter("source", BOOLEAN, SourceInputs)

MaxDropConv == 1

DamagedSources(m, tag) == DamagedBy(SourceTemplate(m, tag), MaxDropConv)

DamagedHeaders(m, tag) ==
    DamagedBy(HeaderTemplate(m, tag, TRUE), MaxDropConv)
        \cup DamagedBy(HeaderTemplate(m, tag, FALSE), MaxDropConv)

InitSourceFile == InitConverter("source", BOOLEAN, DamagedSources)

InitHeaderFile == InitConverter("header", {TRUE}, DamagedHeaders)

NextConv == ReadText \/ Convert \/ WriteText \/ Unlink

\* one conversion of a header or of a source file
SpecConv == (InitHeaderFile \/ InitSourceFile) /\ [][NextConv]_vars

NextSource == ReadText \/ Convert \/ WriteText \/ Unlink

SpecSource == InitSource /\ [][NextSource]_vars


\* ------------------------------------------------------------------------
\* Claims about one conversion
\* ------------------------------------------------------------------------

AnyLine(ls, P(_)) == \E i \in 1..Len(ls) : P(ls[i])

HasToken(ls, t) == \E i \in 1..Len(ls) : \E j \in 1..Len(ls[i]) : ls[i][j] = t

HasIfndefGuard(ls) ==
    LET IsIfndef(l) == Contains(l, <<"#ifndef", SP>> \o OldGuard(model, algotag))
    IN  AnyLine(ls, IsIfndef)

HasIfdefCplusplus(ls) == AnyLine(ls, IsIfdefCplusplus)

\* C1: a header that lacks the "#ifndef <oldGuard>" line, or that has no
\* "#ifdef __cplusplus" line, makes the conversion fail, and no .hpp file is
\* written for it.
C1_MissingAnchorFails ==
    (kind = "header" /\ (~HasIfndefGuard(input) \/ ~HasIfdefCplusplus(input)))
        => (pc # "done" /\ ~outfile.exists)

\* C8 as claimed: whenever a conversion has succeeded and no preserve option is
\* on, the generator-produced input file is gone.
C8_DeletedOnEverySuccess ==
    (pc = "done" /\ ~preserve) => ~infile.exists

\* C8 as amended: generate.py deletes the input exactly when the conversion
\* succeeded with PRESERVE_C_FILES off, and only once the complete target is
\* written; a failed conversion keeps the input and writes no target; a target
\* on disk is always the complete conversion; generate_crc8_arduino.py never
\* deletes its input.
C8_Lifecycle ==
    /\ ~infile.exists =>
          /\ convention = "nested" /\ ~preserve /\ pc = "done"
          /\ outfile = File(ConversionOf(input))
    /\ (pc = "done" /\ convention = "nested" /\ ~preserve) => ~infile.exists
    /\ (pc = "done" /\ preserve) => infile = File(input)
    /\ pc = "failed" => (infile = File(input) /\ ~outfile.exists)
    /\ outfile.exists => outfile = File(ConversionOf(input))
    /\ convention = "flat" => infile = File(input)

C8_Witness ==
    /\ pc = "done" /\ convention = "nested" /\ ~preserve
    /\ ~infile.exists /\ outfile.exists


\* ------------------------------------------------------------------------
\* Claims about source conversion
\* ------------------------------------------------------------------------

Readers == {"pgm_read_byte", "pgm_read_word", "pgm_read_dword"}

HasReader(l) == \E j \in 1..Len(l) : l[j] \in Readers

\* l has "crc_table[" somewhere
HasTableBracket(l) == Contains(l, <<"crc_table", "[">>)

\* l has a direct index crc_table[tbl_idx<rest>]
HasDirectIndex(l) ==
    \E p \in 1..Len(l) :
        /\ p + 2 <= Len(l)
        /\ SubSeq(l, p, p + 2) = <<"crc_table", "[", "tbl_idx">>
        /\ \E q \in (p + 3)..Len(l) : l[q] = "]"

\* a direct index of l begins inside the brackets of an earlier one
HasNestedIndex(l) ==
    \E p, r \in 1..Len(l) :
        /\ p < r /\ r + 2 <= Len(l)
        /\ SubSeq(l, p, p + 2) = <<"crc_table", "[", "tbl_idx">>
        /\ SubSeq(l, r, r + 2) = <<"crc_table", "[", "tbl_idx">>
        /\ \A q \in (p + 3)..r : l[q] # "]"

\* l with the symbol prefix of the flat convention taken off crc_table and crc_t
Unprefixed(l, fileroot) ==
    StrReplace(StrReplace(l, <<fileroot, "_", "crc_table">>, <<"crc_table">>, -1),
               <<fileroot, "_t">>, <<"crc_t">>, -1)

UnprefixedLines(ls, fileroot) == [i \in 1..Len(ls) |-> Unprefixed(ls[i], fileroot)]

\* C5: for algorithm tags bit and nibblem, whatever the PROGMEM toggle and the
\* convention, the written source has no pgmspace include, no PROGMEM
\* annotation and no pgm_read_* call, and the lines of the input that index
\* crc_table are in the output as they were (in the flat convention with the
\* symbol prefix on the identifiers, and nothing else changed).
C5_NoMemoryMappedRewriting ==
    (kind = "source" /\ outfile.exists /\ algotag \in {"bit", "nibblem"}) =>
        /\ ~HasToken(outfile.text, "PROGMEM")
        /\ ~AnyLine(outfile.text, HasReader)
        /\ ~HasToken(outfile.text, "<avr/pgmspace.h>")
        /\ ~HasToken(outfile.text, "<pgmspace.h>")
        /\ SelectSeq(IF convention = "flat"
                     THEN UnprefixedLines(outfile.text, Fileroot(model, algotag))
                     ELSE outfile.text,
                     HasTableBracket)
             = SelectSeq(input, HasTableBracket)

C5_Witness ==
    /\ pc = "done" /\ kind = "source" /\ algotag = "nibblem" /\ progmem
    /\ AnyLine(input, HasDirectIndex) /\ AnyLine(input, IsTableInit)
    /\ AnyLine(input, LAMBDA l : Contains(l, include_pattern(Fileroot(model, algotag))))

\* C6: the two converters resolve the variant policy alike.  The narrowed loop
\* variable is i for tag bit and tbl_idx for the other tags, a direct table
\* index of the input is read through pgm_read_* iff the toggle is on and the
\* tag is nibble or byte, and use_progmem is the negation of no_progmem.
C6_PolicyAgrees ==
    /\ UseProgmem(algotag, progmem) = ~NoProgmem(algotag, progmem)
    /\ (kind = "source" /\ pc = "done") =>
          /\ AnyLine(input, HasDirectIndex) =>
                (AnyLine(outfile.text, HasReader)
                    <=> (progmem /\ algotag \in {"nibble", "byte"}))
          /\ (/\ AnyLine(input, LAMBDA l : Contains(l, UnsignedIntDecl("i")))
              /\ AnyLine(input, LAMBDA l : Contains(l, UnsignedIntDecl("tbl_idx")))) =>
                /\ AnyLine(outfile.text, LAMBDA l : l = Uint8Decl("i")) <=> algotag = "bit"
                /\ AnyLine(outfile.text, LAMBDA l : l = Uint8Decl("tbl_idx"))
                       <=> algotag # "bit"

C6_Witness ==
    /\ pc = "done" /\ kind = "source" /\ convention = "flat"
    /\ algotag = "nibblem" /\ progmem
    /\ input = SourceTemplate(model, algotag)

\* CRC width of a model, in bits
CrcWidth(m) ==
    CASE m = "crc-8" -> 8
      [] m \in {"crc-16-ccitt", "crc-16-modbus"} -> 16
      [] m = "crc-32" -> 32

ReaderForWidth(w) ==
    CASE w = 8 -> "pgm_read_byte" [] w = 16 -> "pgm_read_word" [] w = 32 -> "pgm_read_dword"

\* l with every "(<reader>(crc_table + (" turned back into "crc_table[" and
\* every ")))" into "]"
Unrewritten(l, reader) ==
    StrReplace(StrReplace(l, <<"(", reader, "(", "crc_table", SP, "+", SP, "(">>,
                          <<"crc_table", "[">>, -1),
               <<")))">>, <<"]">>, -1)

MemoryMapped == progmem /\ algotag \in {"nibble", "byte"}

\* C7: in memory-mapped mode every direct index crc_table[tbl_idx<rest>] of
\* every line is rewritten, so that none is left in the output of generate.py.
C7_NoDirectIndexRemains ==
    (kind = "source" /\ convention = "nested" /\ pc = "done" /\ MemoryMapped) =>
        ~AnyLine(outfile.text, HasDirectIndex)

\* C7, the part of it that does hold: generate.py rewrites each direct index
\* found scanning a line from the left (a match runs to the first "]") to
\* (<reader>(crc_table + (tbl_idx<rest>))) with the bracketed text verbatim;
\* the reader is fixed by the CRC width of the model alone; a direct index is
\* left in the output only where one begins inside the brackets of another.
C7_IndexRewritten ==
    (kind = "source" /\ convention = "nested" /\ pc = "done" /\ MemoryMapped) =>
        LET reader == ReaderForWidth(CrcWidth(model))
            called == SelectSeq(outfile.text, HasReader)
        IN  /\ \A i \in 1..Len(called) : \A j \in 1..Len(called[i]) :
                    called[i][j] \in Readers => called[i][j] = reader
            /\ [i \in 1..Len(called) |-> Unrewritten(called[i], reader)]
                 = SelectSeq(input, HasDirectIndex)
            /\ ~AnyLine(input, HasNestedIndex) => ~AnyLine(outfile.text, HasDirectIndex)

\* ------------------------------------------------------------------------
\* main() of _test_acecrc_py/generate.py and of scripts/generate_crc8.py
\* ------------------------------------------------------------------------

MaxAlgos == 2

\* choices=("bit", "nibble", "nibblem", "byte") of --algotag
ArgChoices == {"bit", "nibble", "nibblem", "byte"}

\* PRESERVE_C_FILES of generate.py
PRESERVE_C_FILES == FALSE

\* keys of ALGO_FLAGS in generate_crc8.py
ALGO_FLAGS == {"bit", "nibble", "nibblem", "byte"}

ALL_ALGOS == <<"bit", "nibble", "nibblem", "byte">>

C99_DIR == "dist/crc/c99/"

SRC_CRC_DIR == "src/crc/"

Op(e, p) == [ev |-> e, path |-> p]

\* the process ends with exit status code, exc being the uncaught exception
Exit(code, exc) == step' = "exited" /\ exitcode' = code /\ raised' = exc

\* args = parser.parse_args(): argparse rejects an --algotag outside choices
MainParseArgs ==
    /\ driver = "generate.py" /\ step = "parse_args"
    /\ IF request.algos[1] \notin ArgChoices
       THEN Exit(2, "argparse: invalid choice")
       ELSE step' = "pgm_map" /\ UNCHANGED <<exitcode, raised>>
    /\ UNCHANGED <<driver, request, pairIdx, events, disk, convVars, cmpVars>>

\* pgm_read_func = pgm_map.get(model); raise ValueError if it is None
MainPgmMap ==
    /\ driver = "generate.py" /\ step = "pgm_map"
    /\ IF PgmReadFunc(request.model) = ""
       THEN Exit(1, "ValueError: Unknown model")
       ELSE step' = "header" /\ UNCHANGED <<exitcode, raised>>
    /\ UNCHANGED <<driver, request, pairIdx, events, disk, convVars, cmpVars>>

MainFile(ext) == Fileroot(request.model, request.algos[1]) \o ext

\* if args.header / if args.source: run_pycrc(...); rc is pycrc's exit status
MainRunPycrc(flag, at, ext, convertStep, skipStep) ==
    /\ driver = "generate.py" /\ step = at
    /\ IF ~flag
       THEN /\ step' = skipStep
            /\ UNCHANGED <<events, disk, exitcode, raised>>
       ELSE \E rc \in {0, 1} :
            /\ events' = Append(events, Op("spawn", "pycrc -o " \o MainFile(ext)))
            /\ IF rc = 0
               THEN /\ disk' = disk \cup {MainFile(ext)}
                    /\ step' = convertStep
                    /\ UNCHANGED <<exitcode, raised>>
               ELSE /\ Exit(1, "CalledProcessError")
                    /\ UNCHANGED disk
    /\ UNCHANGED <<driver, request, pairIdx, convVars, cmpVars>>

\* convert_h_to_hpp / convert_c_to_cpp as main() sees it: read, write, unlink
MainConvert(at, ext, newExt, nextStep) ==
    /\ driver = "generate.py" /\ step = at
    /\ events' = events \o <<Op("read", MainFile(ext)), Op("write", MainFile(newExt))>>
                        \o (IF PRESERVE_C_FILES THEN <<>>
                            ELSE <<Op("unlink", MainFile(ext))>>)
    /\ disk' = (IF PRESERVE_C_FILES THEN disk ELSE disk \ {MainFile(ext)})
                   \cup {MainFile(newExt)}
    /\ IF nextStep = "exited"
       THEN Exit(0, "")
       ELSE step' = nextStep /\ UNCHANGED <<exitcode, raised>>
    /\ UNCHANGED <<driver, request, pairIdx, convVars, cmpVars>>

MainHeaderPycrc == MainRunPycrc(request.header, "header", ".h", "header_convert", "source")

MainHeaderConvert == MainConvert("header_convert", ".h", ".hpp", "source")

MainSourcePycrc ==
    /\ MainRunPycrc(request.source, "source", ".c", "source_convert", "return")

MainSourceConvert == MainConvert("source_convert", ".c", ".cpp", "exited")

\* main() returns without having been asked for a source
MainReturn ==
    /\ driver = "generate.py" /\ step = "return"
    /\ Exit(0, "")
    /\ UNCHANGED <<driver, request, pairIdx, events, disk, convVars, cmpVars>>

\* parse_algos_arg(val), tokens being the non-empty stripped pieces of val
parse_algos_arg_raises(tokens) == \E i \in 1..Len(tokens) : tokens[i] \notin Range(ALL_ALGOS)

parse_algos_arg(tokens) == IF tokens = <<>> THEN <<"nibble">> ELSE tokens

\* the list generate_c99_variants and stage_variants are called with
Algos ==
    IF driver = "generate_crc8.py" THEN parse_algos_arg(request.algos) ELSE request.algos

\* algos = parse_algos_arg(args.algos)
Crc8ParseAlgos ==
    /\ driver = "generate_crc8.py" /\ step = "parse_algos"
    /\ IF parse_algos_arg_raises(request.algos)
       THEN Exit(1, "SystemExit: Unknown algo token in --algos")
       ELSE step' = "validate" /\ UNCHANGED <<exitcode, raised>>
    /\ UNCHANGED <<driver, request, pairIdx, events, disk, convVars, cmpVars>>

FirstTokenUnknown(algos) == Len(algos) > 0 /\ algos[1] \notin ALGO_FLAGS

\* first loop of generate_c99_variants: some token is not in ALGO_FLAGS
SomeTokenUnknown(algos) == \E i \in 1..Len(algos) : algos[i] \notin ALGO_FLAGS

\* what follows the generation loop
AfterGenerate ==
    IF driver = "generate_crc8.py" /\ ~request.no_stage
    THEN step' = "stage" /\ UNCHANGED <<exitcode, raised>>
    ELSE Exit(0, "")

\* for algo in algos: if algo not in ALGO_FLAGS: raise SystemExit(...)
Crc8Validate ==
    /\ driver \in {"generate_crc8.py", "generate_c99_variants"} /\ step = "validate"
    /\ IF SomeTokenUnknown(Algos)
       THEN Exit(1, "SystemExit: Unknown algorithm token") /\ UNCHANGED pairIdx
       ELSE IF Algos = <<>>
            THEN AfterGenerate /\ UNCHANGED pairIdx
            ELSE step' = "generate_h" /\ pairIdx' = 1 /\ UNCHANGED <<exitcode, raised>>
    /\ UNCHANGED <<driver, request, events, disk, convVars, cmpVars>>

\* one run([... "pycrc" ... "--generate", ext, "-o", out]) of the second loop;
\* flags = ALGO_FLAGS[algo] comes first
Crc8Generate(at, ext) ==
    /\ driver \in {"generate_crc8.py", "generate_c99_variants"} /\ step = at
    /\ LET algo == Algos[pairIdx]
           out == C99_DIR \o "crc8_" \o algo \o ext
       IN  IF algo \notin ALGO_FLAGS
           THEN Exit(1, "KeyError") /\ UNCHANGED <<events, disk, pairIdx>>
           ELSE \E rc \in {0, 1} :
                /\ events' = Append(events, Op("spawn", "pycrc -o " \o out))
                /\ IF rc # 0
                   THEN Exit(1, "CalledProcessError") /\ UNCHANGED <<disk, pairIdx>>
                   ELSE /\ disk' = disk \cup {out}
                        /\ IF ext = ".h"
                           THEN /\ step' = "generate_c"
                                /\ UNCHANGED <<pairIdx, exitcode, raised>>
                           ELSE IF pairIdx < Len(Algos)
                                THEN /\ step' = "generate_h" /\ pairIdx' = pairIdx + 1
                                     /\ UNCHANGED <<exitcode, raised>>
                                ELSE AfterGenerate /\ UNCHANGED pairIdx
    /\ UNCHANGED <<driver, request, convVars, cmpVars>>

Crc8GenerateH == Crc8Generate("generate_h", ".h")

Crc8GenerateC == Crc8Generate("generate_c", ".c")

\* the file operations of stage_variants(algos) from its k-th algo on, on disk d
RECURSIVE StageOps(_, _, _)
StageOps(algos, k, d) ==
    IF k > Len(algos) THEN <<>>
    ELSE LET hsrc == C99_DIR \o "crc8_" \o algos[k] \o ".h"
             csrc == C99_DIR \o "crc8_" \o algos[k] \o ".c"
         IN  IF hsrc \notin d \/ csrc \notin d
             THEN <<Op("return 1", algos[k])>>
             ELSE <<Op("read", hsrc), Op("write", SRC_CRC_DIR \o "crc8_" \o algos[k] \o ".h"),
                    Op("read", csrc), Op("write", SRC_CRC_DIR \o "crc8_" \o algos[k] \o ".c")>>
                  \o StageOps(algos, k + 1, d)

\* rc = stage_variants(algos); if rc != 0: raise SystemExit(...)
Crc8Stage ==
    /\ driver = "generate_crc8.py" /\ step = "stage"
    /\ LET ops == <<Op("mkdir", SRC_CRC_DIR)>> \o StageOps(Algos, 1, disk)
           failed == \E i \in 1..Len(ops) : ops[i].ev = "return 1"
       IN  /\ events' = events \o SelectSeq(ops, LAMBDA o : o.ev # "return 1")
           /\ disk' = disk \cup {ops[i].path : i \in {j \in 1..Len(ops) : ops[j].ev = "write"}}
           /\ IF failed THEN Exit(1, "SystemExit: Staging failed") ELSE Exit(0, "")
    /\ UNCHANGED <<driver, request, pairIdx, convVars, cmpVars>>

\* command lines of generate.py: any model name, any tag
InitGenerate ==
    /\ driver = "generate.py"
    /\ \E m \in Range(MODELS) \cup {"crc-64", "crc8"} :
       \E tag \in Range(ALGOTAGS) \cup {"word"} :
       \E h, s \in BOOLEAN :
          request = [model |-> m, algos |-> <<tag>>, header |-> h, source |-> s,
                     no_stage |-> FALSE]
    /\ step = "parse_args" /\ pairIdx = 0 /\ events = <<>> /\ exitcode = 0 /\ raised = ""
    /\ disk = {}

RECURSIVE TokenLists(_)
TokenLists(n) ==
    IF n = 0 THEN {<<>>}
    ELSE TokenLists(n - 1) \cup
         {Append(l, t) : l \in TokenLists(n - 1), t \in Range(ALL_ALGOS) \cup {"word"}}

\* generate_crc8.py run as a script, or generate_c99_variants called with a
\* list of its caller's; importing the module has made C99_DIR
InitCrc8 ==
    /\ driver \in {"generate_crc8.py", "generate_c99_variants"}
    /\ \E toks \in TokenLists(MaxAlgos) :
       \E ns \in (IF driver = "generate_crc8.py" THEN BOOLEAN ELSE {FALSE}) :
          request = [model |-> "crc-8", algos |-> toks, header |-> FALSE,
                     source |-> FALSE, no_stage |-> ns]
    /\ step = (IF driver = "generate_crc8.py" THEN "parse_algos" ELSE "validate")
    /\ pairIdx = 0 /\ events = <<Op("mkdir", C99_DIR)>> /\ exitcode = 0 /\ raised = ""
    /\ disk = {}

InitMain == (InitGenerate \/ InitCrc8) /\ ConvIdle /\ CmpIdle

NextMain ==
    \/ MainParseArgs \/ MainPgmMap
    \/ MainHeaderPycrc \/ MainHeaderConvert
    \/ MainSourcePycrc \/ MainSourceConvert \/ MainReturn
    \/ Crc8ParseAlgos \/ Crc8Validate \/ Crc8GenerateH \/ Crc8GenerateC \/ Crc8Stage

SpecMain == InitMain /\ [][NextMain]_vars

\* the request names an unknown model or an unknown algorithm token
ConfigurationError ==
    \/ /\ driver = "generate.py"
       /\ \/ request.model \notin {"crc-8", "crc-16-ccitt", "crc-16-modbus", "crc-32"}
          \/ request.algos[1] \notin {"bit", "nibble", "nibblem", "byte"}
    \/ /\ driver \in {"generate_crc8.py", "generate_c99_variants"}
       /\ \E i \in 1..Len(request.algos) :
              request.algos[i] \notin {"bit", "nibble", "nibblem", "byte"}

ConfigurationErrorRaised ==
    raised \in {"argparse: invalid choice", "ValueError: Unknown model",
                "SystemExit: Unknown algo token in --algos",
                "SystemExit: Unknown algorithm token"}

NoGeneratorNoFileOp ==
    \A i \in 1..Len(events) : events[i].ev \notin {"spawn", "read", "write", "unlink"}

\* C4: a run whose request has a configuration error (unknown model, or an
\* unknown algorithm token anywhere in the list) ends with that error, and a
\* run that ends with a configuration error has spawned no generator and has
\* read, written or deleted no file, also when earlier tokens are valid.
\* (generate_crc8.py makes its output directory when it is imported; that is
\* the one thing on record in such a run.)
C4_ConfigErrorBeforeAnyWork ==
    /\ ConfigurationError => NoGeneratorNoFileOp /\ disk = {}
    /\ (ConfigurationError /\ step = "exited") => ConfigurationErrorRaised /\ exitcode # 0
    /\ ConfigurationErrorRaised => NoGeneratorNoFileOp /\ ConfigurationError

C4_Witness ==
    /\ driver = "generate_c99_variants" /\ step = "exited"
    /\ request.algos = <<"nibble", "word">>
    /\ raised = "SystemExit: Unknown algorithm token"

\* ------------------------------------------------------------------------
\* Batch drivers: test_acecrc_py/generate_all.py, _test_acecrc_py/generate_crc8.py,
\* simple.py (generate_crc8_c99.py, then generate_crc8_arduino.py)
\* ------------------------------------------------------------------------

GENERATE_ALL == "test_acecrc_py/generate_all.py"

GENERATE_CRC8 == "_test_acecrc_py/generate_crc8.py"

SIMPLE == "simple.py"

ARDUINO == "generate_crc8_arduino.py"

\* ALGOS of generate_crc8_c99.py and of _test_acecrc_py/generate_crc8.py
ALGOS == <<"bit", "nibble", "nibblem", "byte">>

PairsTagsOuter(models, tags) ==
    [k \in 1..(Len(models) * Len(tags)) |->
        <<models[((k - 1) % Len(models)) + 1], tags[((k - 1) \div Len(models)) + 1]>>]

\* for model in models: for algo in tags: the (model, algo) in loop order
PairsOf(models, tags) ==
    [k \in 1..(Len(models) * Len(tags)) |->
        <<models[((k - 1) \div Len(tags)) + 1], tags[((k - 1) % Len(tags)) + 1]>>]

\* sorted(C99_DIR.glob("crc8_*.c")), as algorithm tags
SortedTags == <<"bit", "byte", "nibble", "nibblem">>

ArduinoC99(tag, ext) == "dist/crc/c99/crc8_" \o tag \o ext

CFiles(d) == SelectSeq(SortedTags, LAMBDA t : ArduinoC99(t, ".c") \in d)

\* the pairs the running driver iterates
Pairs ==
    CASE driver = GENERATE_ALL -> PairsOf(MODELS, ALGOTAGS)
      [] driver = GENERATE_CRC8 -> PairsOf(<<"crc-8">>, ALGOS)
      [] driver \in {SIMPLE, ARDUINO} /\ step \in {"c99_h", "c99_c"} ->
             PairsOf(<<"crc-8">>, ALGOS)
      [] OTHER -> PairsOf(<<"crc-8">>, CFiles(disk))

\* where the driver moves the converted files
OutputDir == IF driver = GENERATE_ALL THEN "output/" ELSE "output_crc8/"

Did(e, f, pair, good) == [ev |-> e, what |-> f, model |-> pair[1], tag |-> pair[2], ok |-> good]

\* run([... generate.py --model m --algotag a --header/--source]): the child runs
\* pycrc and then converts; a non-zero exit status raises CalledProcessError
BatchRun(at, f, ext, moveStep) ==
    /\ driver \in {GENERATE_ALL, GENERATE_CRC8} /\ step = at
    /\ LET pair == Pairs[pairIdx]
       IN  \E outcome \in {"ok", "pycrc failed", "conversion failed"} :
           /\ events' = events \o
                 (IF outcome = "pycrc failed"
                  THEN <<Did("generate", f, pair, FALSE)>>
                  ELSE <<Did("generate", f, pair, TRUE),
                         Did("convert", f, pair, outcome = "ok")>>)
           /\ IF outcome = "ok"
              THEN /\ disk' = disk \cup {Fileroot(pair[1], pair[2]) \o ext}
                   /\ step' = moveStep
                   /\ UNCHANGED <<exitcode, raised>>
              ELSE /\ Exit(1, "CalledProcessError")
                   /\ UNCHANGED disk
    /\ UNCHANGED <<driver, request, pairIdx, convVars, cmpVars>>

\* if hpp.exists(): hpp.rename(OUTPUT_DIR / hpp.name), and the same for cpp
BatchMove(at, f, ext) ==
    /\ driver \in {GENERATE_ALL, GENERATE_CRC8} /\ step = at
    /\ LET pair == Pairs[pairIdx]
           file == Fileroot(pair[1], pair[2]) \o ext
       IN  IF file \in disk
           THEN /\ disk' = (disk \ {file}) \cup {OutputDir \o file}
                /\ events' = Append(events, Did("move", f, pair, TRUE))
           ELSE UNCHANGED <<disk, events>>
    /\ IF f = "h"
       THEN step' = "run_source" /\ UNCHANGED <<pairIdx, exitcode, raised>>
       ELSE IF pairIdx < Len(Pairs)
            THEN step' = "run_header" /\ pairIdx' = pairIdx + 1
                 /\ UNCHANGED <<exitcode, raised>>
            ELSE Exit(0, "") /\ UNCHANGED pairIdx
    /\ UNCHANGED <<driver, request, convVars, cmpVars>>

BatchRunHeader == BatchRun("run_header", "h", ".hpp", "move_hpp")

BatchMoveHpp == BatchMove("move_hpp", "h", ".hpp")

BatchRunSource == BatchRun("run_source", "c", ".cpp", "move_cpp")

BatchMoveCpp == BatchMove("move_cpp", "c", ".cpp")

\* generate_crc8_c99.py, run by simple.py: one pycrc run; a failing run ends
\* the child with a traceback, and simple.py with CalledProcessError
C99Generate(at, f, ext) ==
    /\ driver = SIMPLE /\ step = at
    /\ LET pair == Pairs[pairIdx]
       IN  \E rc \in {0, 1} :
           /\ events' = Append(events, Did("generate", f, pair, rc = 0))
           /\ IF rc # 0
              THEN Exit(1, "CalledProcessError") /\ UNCHANGED <<disk, pairIdx>>
              ELSE /\ disk' = disk \cup {"scripts/c99_crc8/crc8_" \o pair[2] \o ext}
                   /\ UNCHANGED <<exitcode, raised>>
                   /\ IF f = "h"
                      THEN step' = "c99_c" /\ UNCHANGED pairIdx
                      ELSE IF pairIdx < Len(ALGOS)
                           THEN step' = "c99_h" /\ pairIdx' = pairIdx + 1
                           ELSE step' = "arduino" /\ pairIdx' = 1
    /\ UNCHANGED <<driver, request, convVars, cmpVars>>

C99GenerateH == C99Generate("c99_h", "h", ".h")

C99GenerateC == C99Generate("c99_c", "c", ".c")

\* generate_crc8_arduino.py main(): top of the loop over the sorted .c files
ArduinoLoop ==
    /\ driver \in {SIMPLE, ARDUINO} /\ step = "arduino"
    /\ IF pairIdx > Len(Pairs)
       THEN Exit(0, "") /\ UNCHANGED <<pairIdx, events>>
       ELSE IF ArduinoC99(Pairs[pairIdx][2], ".h") \notin disk
            THEN /\ events' = Append(events, Did("skip", "h", Pairs[pairIdx], FALSE))
                 /\ pairIdx' = pairIdx + 1
                 /\ UNCHANGED <<step, exitcode, raised>>
            ELSE /\ step' = "convert_header"
                 /\ UNCHANGED <<pairIdx, events, exitcode, raised>>
    /\ UNCHANGED <<driver, request, disk, convVars, cmpVars>>

\* convert_header(hfile, fileroot): raises IndexError on a CRC_ALGO define
\* without a value, and then main() ends with the traceback
ArduinoConvertHeader ==
    /\ driver \in {SIMPLE, ARDUINO} /\ step = "convert_header"
    /\ \E good \in BOOLEAN :
       /\ events' = Append(events, Did("convert", "h", Pairs[pairIdx], good))
       /\ IF good
          THEN /\ disk' = disk \cup {"dist/crc/arduino/crc8_" \o Pairs[pairIdx][2] \o ".hpp"}
               /\ step' = "convert_source"
               /\ UNCHANGED <<exitcode, raised>>
          ELSE /\ Exit(1, IF driver = SIMPLE THEN "CalledProcessError" ELSE "IndexError")
               /\ UNCHANGED disk
    /\ UNCHANGED <<driver, request, pairIdx, convVars, cmpVars>>

\* convert_source(cfile, fileroot, "pgm_read_byte")
ArduinoConvertSource ==
    /\ driver \in {SIMPLE, ARDUINO} /\ step = "convert_source"
    /\ events' = Append(events, Did("convert", "c", Pairs[pairIdx], TRUE))
    /\ disk' = disk \cup {"dist/crc/arduino/crc8_" \o Pairs[pairIdx][2] \o ".cpp"}
    /\ step' = "arduino" /\ pairIdx' = pairIdx + 1
    /\ UNCHANGED <<driver, request, exitcode, raised, convVars, cmpVars>>

\* what dist/crc/c99 may hold when a driver starts
C99Files == {ArduinoC99(t, e) : t \in Range(ALGOS), e \in {".h", ".c"}}

InitBatch ==
    /\ driver \in {GENERATE_ALL, GENERATE_CRC8, SIMPLE, ARDUINO}
    /\ request = NoRequest
    /\ step = CASE driver = SIMPLE -> "c99_h"
                [] driver = ARDUINO -> "arduino"
                [] OTHER -> "run_header"
    /\ pairIdx = 1 /\ events = <<>> /\ exitcode = 0 /\ raised = ""
    /\ disk \in (IF driver \in {SIMPLE, ARDUINO} THEN SUBSET C99Files ELSE {{}})
    /\ ConvIdle /\ CmpIdle

NextBatch ==
    \/ BatchRunHeader \/ BatchMoveHpp \/ BatchRunSource \/ BatchMoveCpp
    \/ C99GenerateH \/ C99GenerateC
    \/ ArduinoLoop \/ ArduinoConvertHeader \/ ArduinoConvertSource

SpecBatch == InitBatch /\ [][NextBatch]_vars

\* ---- claims about the batch drivers

\* position of x in the sequence s (0 if absent)
IndexIn(s, x) == IF \E i \in 1..Len(s) : s[i] = x
                 THEN CHOOSE i \in 1..Len(s) : s[i] = x ELSE 0

\* the (model, tag) pairs of the batch, in the order the claim gives them:
\* models outer, tags inner, in the listed order
ListedPairs ==
    LET ms == IF driver = GENERATE_ALL
              THEN <<"crc-8", "crc-16-ccitt", "crc-16-modbus", "crc-32">>
              ELSE <<"crc-8">>
        ts == <<"bit", "nibble", "nibblem", "byte">>
    IN  [k \in 1..(Len(ms) * 4) |-> <<ms[((k - 1) \div 4) + 1], ts[((k - 1) % 4) + 1]>>]

PairOf(e) == <<e.model, e.tag>>

Attempted(pair) == \E i \in 1..Len(events) : PairOf(events[i]) = pair

FailedOrSkipped(pair) == \E i \in 1..Len(events) : PairOf(events[i]) = pair /\ ~events[i].ok

\* C2: when a batch has ended, every pair listed after a failing pair has been
\* attempted.
C2_LaterPairsAttempted ==
    (driver \in {GENERATE_ALL, GENERATE_CRC8} /\ step = "exited") =>
        \A i, j \in 1..Len(ListedPairs) :
            (i < j /\ FailedOrSkipped(ListedPairs[i])) => Attempted(ListedPairs[j])

\* the pairs a driver has to process: the listed ones, and for
\* generate_crc8_arduino.py those whose .c file is in dist/crc/c99
BatchPairs ==
    IF driver = ARDUINO
    THEN {<<"crc-8", t>> : t \in {u \in Range(ALGOS) : ArduinoC99(u, ".c") \in disk}}
    ELSE Range(ListedPairs)

Succeeded(pair) ==
    /\ \E i \in 1..Len(events) :
          PairOf(events[i]) = pair /\ events[i].ev = "convert" /\ events[i].what = "c"
          /\ events[i].ok
    /\ ~FailedOrSkipped(pair)

\* C3: a batch in which a pair failed or was skipped ends with a non-zero
\* exit status, and a batch ends with status zero only if every pair succeeded.
C3_NonZeroWhenAnyPairFails ==
    (driver \in {GENERATE_ALL, GENERATE_CRC8, ARDUINO} /\ step = "exited") =>
        /\ (\E p \in BatchPairs : FailedOrSkipped(p)) => exitcode # 0
        /\ exitcode = 0 => \A p \in BatchPairs : Succeeded(p)

\* generate and convert events of the run, in order
Work == SelectSeq(events, LAMBDA e : e.ev \in {"generate", "convert"})

StepRank(e) ==
    CASE e.ev = "generate" /\ e.what = "h" -> 0
      [] e.ev = "convert" /\ e.what = "h" -> 1
      [] e.ev = "generate" /\ e.what = "c" -> 2
      [] e.ev = "convert" /\ e.what = "c" -> 3

\* rank of an event in the order: pairs as listed, and within a pair generate
\* header, convert header, generate source, convert source
PairwiseRank(e) == 4 * IndexIn(ListedPairs, PairOf(e)) + StepRank(e)

PairwiseOrder ==
    /\ \A i, j \in 1..Len(Work) : i < j => PairwiseRank(Work[i]) < PairwiseRank(Work[j])
    /\ \A j \in 1..Len(Work) :
          Work[j].ev = "convert" =>
             \E i \in 1..(j - 1) :
                /\ Work[i].ev = "generate" /\ Work[i].ok
                /\ Work[i].what = Work[j].what /\ PairOf(Work[i]) = PairOf(Work[j])

StagedOrder ==
    LET gens == SelectSeq(Work, LAMBDA e : e.ev = "generate")
        convs == SelectSeq(Work, LAMBDA e : e.ev = "convert")
        GenRank(e) == 2 * IndexIn(<<"bit", "nibble", "nibblem", "byte">>, e.tag)
                        + (IF e.what = "h" THEN 0 ELSE 1)
        ConvRank(e) == 2 * IndexIn(<<"bit", "byte", "nibble", "nibblem">>, e.tag)
                        + (IF e.what = "h" THEN 0 ELSE 1)
    IN  /\ Work = gens \o convs
        /\ \A i, j \in 1..Len(gens) : i < j => GenRank(gens[i]) < GenRank(gens[j])
        /\ \A i, j \in 1..Len(convs) : i < j => ConvRank(convs[i]) < ConvRank(convs[j])
        /\ (convs # <<>> \/ \E i \in 1..Len(events) : events[i].ev = "skip") =>
              /\ Len(gens) = 8
              /\ \A i \in 1..8 : gens[i].ok
        /\ \A i \in 1..Len(convs) :
              /\ ("dist/crc/c99/crc8_" \o convs[i].tag \o ".h") \in disk
              /\ ("dist/crc/c99/crc8_" \o convs[i].tag \o ".c") \in disk
        /\ \A i \in 1..Len(gens) :
              gens[i].ok =>
                 ("scripts/c99_crc8/crc8_" \o gens[i].tag \o "." \o gens[i].what) \in disk

COMPARE_ACECRC == "_test_acecrc_py/compare_acecrc.py"

COMPARE_CRC8 == "compare_crc8.py"

IGNORE_PATTERNS == {"Generated on", "by pycrc v", "Auto converted to", "DO NOT EDIT"}

HasIgnorePattern(l) == \E j \in 1..Len(l) : l[j] \in IGNORE_PATTERNS

BlankLineOnly(l) == Strip(l) = <<>>

\* BLANK_NOISE = ^\s*(\*?)\s*$
BLANK_NOISE(l) == LET s == Strip(l) IN s = <<>> \/ s = <<"*">>

\* compare_acecrc.py normalize_lines(lines)
normalize_lines(ls) ==
    LET kept == SelectSeq(ls, LAMBDA l : ~HasIgnorePattern(l) /\ ~BLANK_NOISE(l))
    IN  [i \in 1..Len(kept) |-> RStrip(kept[i])]

\* the lines compare_crc8.py filter_lines drops besides the ignore patterns
IsSpacer(l) ==
    LET stripped == Strip(l)
    IN  \/ stripped \in {<<"*">>, <<"/", "*">>, <<"*", "/">>}
        \/ (StartsWith(stripped, <<"*">>) /\ Strip(Tail(stripped)) = <<>>)
        \/ stripped = <<>>

\* compare_crc8.py filter_lines(lines)
filter_lines(ls) ==
    LET kept == SelectSeq(ls, LAMBDA l : ~HasIgnorePattern(l) /\ ~IsSpacer(l))
    IN  [i \in 1..Len(kept) |-> RStrip(kept[i])]

\* a report file
NoReport == [exists |-> FALSE, kind |-> "", from |-> <<>>, to |-> <<>>]

MissingReport == [exists |-> TRUE, kind |-> "MISSING", from |-> <<>>, to |-> <<>>]

\* the unified diff of two line lists, written to the report: empty iff equal
DiffReport(a, b) == [exists |-> TRUE, kind |-> "DIFF", from |-> a, to |-> b]

\* compare_acecrc.py main(), what it leaves at REPORT_DIR/<name>.diff
AcecrcReport(name) ==
    IF ~outTree[name].exists THEN reportDir[name]
    ELSE IF ~refTree[name].exists THEN MissingReport
    ELSE LET ref_lines == normalize_lines(refTree[name].text)
             out_lines == normalize_lines(outTree[name].text)
         IN  IF ref_lines # out_lines THEN DiffReport(ref_lines, out_lines)
             ELSE reportDir[name]

\* compare_pair(ref, gen, strict): the two line lists that are diffed
compare_pair(ref, gen, st) ==
    IF st THEN <<ref, gen>> ELSE <<filter_lines(ref), filter_lines(gen)>>

\* compare_crc8.py main(), what it leaves at REPORT/<name>.diff
Crc8Report(name, st) ==
    IF ~(outTree[name].exists /\ StartsWith(name, <<"crc8">>)) THEN reportDir[name]
    ELSE IF ~refTree[name].exists THEN MissingReport
    ELSE LET pair == compare_pair(refTree[name].text, outTree[name].text, st)
         IN  IF pair[1] # pair[2] THEN DiffReport(pair[1], pair[2])
             ELSE NoReport

\* file names, as <<stem prefix, rest>>
Names == {<<"crc8", "_bit.hpp">>, <<"crc16ccitt", "_bit.hpp">>}

\* contents a generated or reference file may have
Texts ==
    { << <<"int", SP, "x", ";">> >>,
      << <<"/", "*">>, <<SP, "*", SP, "Generated on", SP, "<date>">>, <<SP, "*">>,
         <<"*", "/">>, <<"int", SP, "x", ";", SP>>, <<>> >>,
      << <<"int", SP, "y", ";">> >> }

Trees == [Names -> {NoFile} \cup {File(t) : t \in Texts}]

\* main() of compare_acecrc.py
RunCompareAcecrc ==
    /\ tool = COMPARE_ACECRC
    /\ reportDir' = [n \in Names |-> AcecrcReport(n)]
    /\ strict' = FALSE
    /\ fresh' = TRUE
    /\ UNCHANGED <<tool, outTree, refTree, convVars, runVars>>

\* main() of compare_crc8.py [--strict]
RunCompareCrc8 ==
    /\ tool = COMPARE_CRC8
    /\ \E st \in BOOLEAN :
       /\ reportDir' = [n \in Names |-> Crc8Report(n, st)]
       /\ strict' = st
    /\ fresh' = TRUE
    /\ UNCHANGED <<tool, outTree, refTree, convVars, runVars>>

\* between runs: a generated file is rewritten, added or removed
ChangeOutput ==
    /\ \E n \in Names : \E f \in {NoFile} \cup {File(t) : t \in Texts} :
          /\ f # outTree[n]
          /\ outTree' = [outTree EXCEPT ![n] = f]
    /\ fresh' = FALSE
    /\ UNCHANGED <<tool, strict, refTree, reportDir, convVars, runVars>>

\* between runs: a reference file is rewritten, added or removed
ChangeReference ==
    /\ \E n \in Names : \E f \in {NoFile} \cup {File(t) : t \in Texts} :
          /\ f # refTree[n]
          /\ refTree' = [refTree EXCEPT ![n] = f]
    /\ fresh' = FALSE
    /\ UNCHANGED <<tool, strict, outTree, reportDir, convVars, runVars>>

InitCompare ==
    /\ tool \in {COMPARE_ACECRC, COMPARE_CRC8}
    /\ strict = FALSE
    /\ outTree \in Trees
    /\ refTree \in Trees
    /\ reportDir = [n \in Names |-> NoReport]
    /\ fresh = FALSE
    /\ ConvIdle /\ RunIdle

NextCompare == RunCompareAcecrc \/ RunCompareCrc8 \/ ChangeOutput \/ ChangeReference

SpecCompare == InitCompare /\ [][NextCompare]_vars

\* the lines of a file that count in a comparison by the tool
Normalized(t) == IF tool = COMPARE_ACECRC THEN normalize_lines(t) ELSE filter_lines(t)

\* the generated file differs from its reference (a missing reference counts)
ReallyDiffers(n) ==
    /\ outTree[n].exists
    /\ \/ ~refTree[n].exists
       \/ Normalized(outTree[n].text) # Normalized(refTree[n].text)

MatchesReference(n) ==
    /\ outTree[n].exists /\ refTree[n].exists
    /\ Normalized(outTree[n].text) = Normalized(refTree[n].text)

\* C10: right after a comparison run (not --strict), for every file of the
\* output tree a report file exists only if the file differed from its
\* reference after normalization in that run, and a file that matches its
\* reference after normalization has no report file.
C10_ReportOnlyForRealDifference ==
    (fresh /\ ~strict) =>
        \A n \in Names :
            outTree[n].exists =>
                /\ reportDir[n].exists => ReallyDiffers(n)
                /\ MatchesReference(n) => ~reportDir[n].exists


\* ------------------------------------------------------------------------
\* One comparison of a generated file with its reference
\* ------------------------------------------------------------------------

MaxLines == 2

MaxRefLines == 1

\* lines a compared file may be made of
CompareLines ==
    { <<>>, <<SP>>, <<SP, "*">>, <<"/", "*">>, <<"*", "/">>,
      <<"x">>, <<"x", SP>>, <<SP, "x">>, <<"y">>,
      <<SP, "*", SP, "Generated on", SP, "x">> }

RECURSIVE LineLists(_)
LineLists(n) ==
    IF n = 0 THEN {<<>>}
    ELSE LineLists(n - 1) \cup {Append(t, l) : t \in LineLists(n - 1), l \in CompareLines}

\* the one file that is compared
TheName == <<"crc8", "_bit.hpp">>

InitNormalize ==
    /\ tool \in {COMPARE_ACECRC, COMPARE_CRC8}
    /\ strict = FALSE
    /\ \E t \in LineLists(MaxLines) :
          outTree = [n \in Names |-> IF n = TheName THEN File(t) ELSE NoFile]
    /\ \E t \in LineLists(MaxRefLines) :
          refTree = [n \in Names |-> IF n = TheName THEN File(t) ELSE NoFile]
    /\ reportDir = [n \in Names |-> NoReport]
    /\ fresh = FALSE
    /\ ConvIdle /\ RunIdle

NextNormalize == RunCompareAcecrc \/ RunCompareCrc8

SpecNormalize == InitNormalize /\ [][NextNormalize]_vars

\* a line the claim lets two files differ in: it has a provenance marker, is
\* blank or whitespace only, or is a lone " *" spacer
Negligible(l) ==
    \/ \E j \in 1..Len(l) :
          l[j] \in {"Generated on", "by pycrc v", "Auto converted to", "DO NOT EDIT"}
    \/ \A j \in 1..Len(l) : l[j] = " "
    \/ Strip(l) = <<"*">>

\* a lone comment opener or closer
OpenerOrCloser(l) == Strip(l) \in {<<"/", "*">>, <<"*", "/">>}

\* the lines of t that are not P, without their trailing whitespace
Rest(t, P(_)) ==
    LET kept == SelectSeq(t, LAMBDA l : ~P(l))
    IN  [i \in 1..Len(kept) |-> RStrip(kept[i])]

\* C11 as claimed: a comparison (not --strict) reports no difference exactly
\* when the two files differ only in lines with a provenance marker, blank
\* lines, lone " *" lines and trailing whitespace.
C11_OnlyNegligibleIgnored ==
    (fresh /\ ~strict) =>
        (reportDir[TheName].exists
            <=> Rest(refTree[TheName].text, Negligible)
                  # Rest(outTree[TheName].text, Negligible))

\* C11 as amended: compare_acecrc.py reports no difference exactly when the
\* files differ only in lines with a provenance marker, blank lines, lone " *"
\* lines and trailing whitespace; compare_crc8.py ignores lone "/*" and "*/"
\* lines as well, and with --strict it ignores nothing.
C11_Normalization ==
    fresh =>
        LET ref == refTree[TheName].text
            out == outTree[TheName].text
            NegligibleCrc8(l) == Negligible(l) \/ OpenerOrCloser(l)
        IN  reportDir[TheName].exists
              <=> CASE tool = COMPARE_ACECRC -> Rest(ref, Negligible) # Rest(out, Negligible)
                    [] tool = COMPARE_CRC8 /\ ~strict ->
                           Rest(ref, NegligibleCrc8) # Rest(out, NegligibleCrc8)
                    [] tool = COMPARE_CRC8 /\ strict -> ref # out

C11_Witness ==
    /\ fresh /\ tool = COMPARE_ACECRC
    /\ refTree[TheName].text = << <<"x">> >>
    /\ outTree[TheName].text = << <<SP, "*">>, <<"x", SP>> >>
    /\ ~reportDir[TheName].exists


\* ------------------------------------------------------------------------
\* staging: stage_variations of validate_and_stage_crc8.py and
\* stage_variants of generate_crc8.py
\* ------------------------------------------------------------------------

VALIDATE_AND_STAGE == "validate_and_stage_crc8.py"

\* DIST_ROOT / "arduino", SRC_ROOT / "c99", SRC_ROOT / "arduino"
ARDUINO_DIR == "dist/crc/arduino/"

SRC_C99_DIR == "src/crc/c99/"

SRC_ARDUINO_DIR == "src/crc/arduino/"

\* the last tokens of a file name that pathlib takes for its suffix
Suffixes == {".h", ".c", ".hpp", ".cpp", ".txt"}

\* a file name is a sequence of tokens; the name itself is their concatenation
RECURSIVE Flat(_)
Flat(name) == IF name = <<>> THEN "" ELSE Head(name) \o Flat(Tail(name))

\* p.stem: the name without its last suffix
Stem(name) ==
    IF Len(name) > 1 /\ name[Len(name)] \in Suffixes
    THEN Flat(SubSeq(name, 1, Len(name) - 1))
    ELSE Flat(name)

FirstTokenMatches(name, prefix) == Head(name) = prefix

\* p.stem == prefix
StemMatches(name, prefix) == Stem(name) = prefix

\* names a file of dist/crc/c99 can have, as sorted() lists them
C99Names ==
    << <<"crc8_nibble", ".c">>, <<"crc8_nibble", ".h">>,
       <<"crc8_nibble", ".tar", ".h">>, <<"crc8_nibble", ".txt">>,
       <<"crc8_nibble", "m", ".h">> >>

\* names a file of dist/crc/arduino can have, as sorted() lists them
ArduinoNames ==
    << <<"crc8_bit", ".cpp">>, <<"crc8_nibble", ".hpp">>,
       <<"crc8_nibble", "m", ".hpp">> >>

\* sorted(src.iterdir()) on disk d
Listing(src, names, d) == SelectSeq(names, LAMBDA n : (src \o Flat(n)) \in d)

\* the copies of one staging loop of stage_variations from its k-th algo on
RECURSIVE CopyOps(_, _, _, _)
CopyOps(algos, k, dst, listing) ==
    IF k > Len(algos) THEN <<>>
    ELSE LET prefix == "crc8_" \o algos[k]
             hits == SelectSeq(listing, LAMBDA n : StemMatches(n, prefix))
         IN  [i \in 1..Len(hits) |-> Op("copy", dst \o Flat(hits[i]))]
             \o CopyOps(algos, k + 1, dst, listing)

\* one staging loop of stage_variations; exitcode holds rc until main() exits
StageLoop(at, next, src, dst, names) ==
    /\ driver = VALIDATE_AND_STAGE /\ step = at
    /\ LET missing == request.algos # <<>> /\ src \notin disk
           ops == IF missing THEN <<>>
                  ELSE CopyOps(request.algos, 1, dst, Listing(src, names, disk))
       IN  /\ events' = events \o <<Op("mkdir", dst)>> \o ops
           /\ disk' = disk \cup {dst} \cup {ops[i].path : i \in 1..Len(ops)}
           /\ exitcode' = IF missing THEN 1 ELSE exitcode
    /\ step' = next
    /\ UNCHANGED <<driver, request, pairIdx, raised, convVars, cmpVars>>

StageC99 == StageLoop("c99", "arduino", C99_DIR, SRC_C99_DIR, C99Names)

StageArduino == StageLoop("arduino", "return", ARDUINO_DIR, SRC_ARDUINO_DIR, ArduinoNames)

\* rc = stage_variations(algos); if rc != 0: sys.exit(rc)
StageMain ==
    /\ driver = VALIDATE_AND_STAGE /\ step = "return"
    /\ step' = "exited"
    /\ raised' = IF exitcode # 0 THEN "SystemExit" ELSE ""
    /\ UNCHANGED <<driver, request, pairIdx, events, exitcode, disk, convVars, cmpVars>>

\* the files of directory dir named by a subset of names
FilesIn(dir, names) == {{dir \o Flat(names[i]) : i \in S} : S \in SUBSET (1..Len(names))}

\* validate_and_stage_crc8.py --algos <tokens>, over any content of dist/crc
InitStageVariations ==
    /\ driver = VALIDATE_AND_STAGE
    /\ \E toks \in TokenLists(MaxAlgos) :
          request = [model |-> "crc-8", algos |-> toks, header |-> FALSE,
                     source |-> FALSE, no_stage |-> FALSE]
    /\ step = "c99" /\ pairIdx = 0 /\ events = <<>> /\ exitcode = 0 /\ raised = ""
    /\ \E c \in FilesIn(C99_DIR, C99Names) \cup {{}} :
       \E a \in FilesIn(ARDUINO_DIR, ArduinoNames) \cup {{}} :
       \E cd \in (IF c = {} THEN {{}, {C99_DIR}} ELSE {{C99_DIR}}) :
       \E ad \in (IF a = {} THEN {{}, {ARDUINO_DIR}} ELSE {{ARDUINO_DIR}}) :
          disk = c \cup a \cup cd \cup ad

\* generate_crc8.py --algos <tokens>, over any content of dist/crc/c99
InitStageVariants ==
    /\ driver = "generate_crc8.py"
    /\ \E toks \in TokenLists(MaxAlgos) :
          request = [model |-> "crc-8", algos |-> toks, header |-> FALSE,
                     source |-> FALSE, no_stage |-> FALSE]
    /\ step = "parse_algos" /\ pairIdx = 0 /\ events = <<Op("mkdir", C99_DIR)>>
    /\ exitcode = 0 /\ raised = ""
    /\ \E c \in FilesIn(C99_DIR, C99Names) : disk = c \cup {C99_DIR}

InitStage == (InitStageVariations \/ InitStageVariants) /\ ConvIdle /\ CmpIdle

NextStage ==
    \/ StageC99 \/ StageArduino \/ StageMain
    \/ Crc8ParseAlgos \/ Crc8Validate \/ Crc8GenerateH \/ Crc8GenerateC \/ Crc8Stage

SpecStage == InitStage /\ [][NextStage]_vars

\* some requested token names exactly the stem of name
Requested(name) == \E i \in 1..Len(Algos) : Stem(name) = "crc8_" \o Algos[i]

\* a copy or a write of name into directory dst has happened
Staged(dst, name) ==
    \E i \in 1..Len(events) :
        /\ events[i].ev \in {"copy", "write"}
        /\ events[i].path = dst \o Flat(name)

\* each file of src has been staged into dst exactly when its stem is requested
ExactStems(src, dst, names) ==
    \A i \in 1..Len(names) :
        (src \o Flat(names[i])) \in disk
            => (Staged(dst, names[i]) <=> Requested(names[i]))

\* C12 as claimed: once a staging tool has run to its end without an error,
\* a file of the staging directory has been copied exactly when its stem is
\* crc8_<token> for a requested token, whichever tool did the staging
C12_ExactStemStaged ==
    (step = "exited" /\ exitcode = 0) =>
        IF driver = VALIDATE_AND_STAGE
        THEN /\ ExactStems(C99_DIR, SRC_C99_DIR, C99Names)
             /\ ExactStems(ARDUINO_DIR, SRC_ARDUINO_DIR, ArduinoNames)
        ELSE ExactStems(C99_DIR, SRC_CRC_DIR, C99Names)

\* name is crc8_<token>.h or crc8_<token>.c for a requested token
RequestedPair(name) ==
    \E i \in 1..Len(Algos) : \E ext \in {".h", ".c"} :
        Flat(name) = "crc8_" \o Algos[i] \o ext

\* C12 as amended: stage_variations copies a file exactly when its stem is
\* crc8_<token> for a requested token, so never on a proper prefix; and
\* stage_variants stages exactly crc8_<token>.h and crc8_<token>.c, leaving
\* files of the same stem with another suffix where they are
C12_Staging ==
    /\ (driver = VALIDATE_AND_STAGE /\ step \in {"arduino", "return", "exited"})
           => ExactStems(C99_DIR, SRC_C99_DIR, C99Names)
    /\ (driver = VALIDATE_AND_STAGE /\ step \in {"return", "exited"})
           => ExactStems(ARDUINO_DIR, SRC_ARDUINO_DIR, ArduinoNames)
    /\ (driver = "generate_crc8.py" /\ step = "exited" /\ exitcode = 0)
           => \A i \in 1..Len(C99Names) :
                  /\ Staged(SRC_CRC_DIR, C99Names[i]) <=> RequestedPair(C99Names[i])
                  /\ Staged(SRC_CRC_DIR, C99Names[i]) => Requested(C99Names[i])

\* nibble was requested and nibblem was not, both crc8_nibble.h and
\* crc8_nibblem.h were in dist/crc/c99, and only the first has been copied
C12_Witness ==
    /\ driver = VALIDATE_AND_STAGE /\ step = "exited"
    /\ request.algos = <<"nibble">>
    /\ (C99_DIR \o "crc8_nibblem.h") \in disk
    /\ (SRC_C99_DIR \o "crc8_nibble.h") \in disk
    /\ (SRC_C99_DIR \o "crc8_nibblem.h") \notin disk


\* ------------------------------------------------------------------------
\* wreplace of generate_crc8_arduino.py, applied to a line and to its own output
\* ------------------------------------------------------------------------

MaxTokens == 3

\* tokens of a line: identifiers wreplace looks for, the pieces its output is
\* made of, and what can stand around them
LineTokens(prefix, upperPrefix) ==
    {"crc_t", "crc_table", "CRC_ALGO", "_TABLE_DRIVEN", "_", SP, "x",
     prefix, "_t", upperPrefix}

RECURSIVE TokenLines(_, _)
TokenLines(n, tokens) ==
    IF n = 0 THEN {<<>>}
    ELSE TokenLines(n - 1, tokens) \cup
         {Append(l, t) : l \in TokenLines(n - 1, tokens), t \in tokens}

\* lines = [wreplace(ln) for ln in lines], once and once more
ApplyWreplace ==
    /\ kind = "line" /\ pc \in {"wreplace", "once"}
    /\ lines' = [i \in 1..Len(lines) |->
                    wreplace(lines[i], Fileroot(model, algotag), FilerootUpper(model, algotag))]
    /\ outfile' = IF pc = "wreplace" THEN File(lines') ELSE outfile
    /\ pc' = IF pc = "wreplace" THEN "once" ELSE "twice"
    /\ UNCHANGED <<convention, kind, model, algotag, progmem, preserve, input, infile>>
    /\ UNCHANGED <<runVars, cmpVars>>

\* any line, and fileroot = crc8_<algo> as main() builds it
InitWreplace ==
    /\ convention = "flat" /\ kind = "line"
    /\ model = "crc-8" /\ algotag \in Range(ALGOTAGS)
    /\ progmem = FALSE /\ preserve = FALSE
    /\ \E l \in TokenLines(MaxTokens, LineTokens(Fileroot(model, algotag),
                                                 FilerootUpper(model, algotag))) :
          input = <<l>>
    /\ infile = NoFile /\ outfile = NoFile
    /\ lines = input /\ pc = "wreplace"
    /\ RunIdle /\ CmpIdle

NextWreplace == ApplyWreplace

SpecWreplace == InitWreplace /\ [][NextWreplace]_vars

\* C13: wreplace applied to its own output returns that output unchanged,
\* for every line and every prefix crc8_<algoTag>
C13_WreplaceIdempotent ==
    (kind = "line" /\ pc = "twice") => lines = outfile.text

\* a line with two identifiers has been prefixed and the second pass is over
C13_Witness ==
    /\ kind = "line" /\ pc = "twice" /\ algotag = "nibble"
    /\ input = << <<"crc_t", SP, "crc_table">> >>
    /\ lines = << <<"crc8_nibble", "_t", SP, "crc8_nibble", "_", "crc_table">> >>


\* ------------------------------------------------------------------------
\* the identifiers of a converted header and of a converted source
\* ------------------------------------------------------------------------

KnownIds == {"crc_t", "crc_init", "crc_update", "crc_finalize", "crc_calculate", "crc_table"}

\* the p-th token of l is a word of its own
WholeWordAt(l, p) ==
    /\ (p = 1 \/ ~WordEnd(l[p - 1]))
    /\ (p = Len(l) \/ ~WordStart(l[p + 1]))

\* l has one of the identifiers, or a CRC_ALGO_* name, as a word of its own
HasUnprefixed(l) ==
    \E p \in 1..Len(l) :
        \/ l[p] \in KnownIds /\ WholeWordAt(l, p)
        \/ /\ l[p] = "CRC_ALGO" /\ (p = 1 \/ ~WordEnd(l[p - 1]))
           /\ p < Len(l) /\ l[p + 1] \in AlgoSuffix
           /\ (p + 1 = Len(l) \/ ~WordStart(l[p + 2]))

\* what follows the prefix in l is the rest of one of the prefixed names
\* <prefix>_t, _init, _update, _finalize, _calculate, <prefix>_crc_table, and
\* what follows the upper-case prefix is _ALGO_<NAME>
OneMapping(l, prefix, upperPrefix) ==
    \A p \in 1..Len(l) :
        /\ l[p] = prefix =>
              /\ p < Len(l)
              /\ \/ l[p + 1] \in {"_t", "_init", "_update", "_finalize", "_calculate"}
                 \/ l[p + 1] = "_" /\ p + 1 < Len(l) /\ l[p + 2] = "crc_table"
        /\ l[p] = upperPrefix =>
              p + 1 < Len(l) /\ l[p + 1] = "_ALGO" /\ l[p + 2] \in AlgoSuffix

\* C14: in the flat convention a written header and a written source hold
\* none of crc_t, crc_init, crc_update, crc_finalize, crc_calculate, crc_table
\* or CRC_ALGO_* as an unprefixed whole word, and the prefixed names of both
\* come from the one mapping
C14_SameSymbolsInBothFiles ==
    (convention = "flat" /\ outfile.exists) =>
        \A i \in 1..Len(outfile.text) :
            /\ ~HasUnprefixed(outfile.text[i])
            /\ OneMapping(outfile.text[i], Fileroot(model, algotag),
                          FilerootUpper(model, algotag))

\* a source whose table is read from program memory has been written: the
\* input named crc_t and crc_table, the output names them with the prefix
C14_Witness ==
    /\ convention = "flat" /\ kind = "source" /\ outfile.exists
    /\ algotag = "nibble" /\ progmem
    /\ \E i \in 1..Len(input) : HasUnprefixed(input[i]) /\ Contains(input[i], <<"crc_table", "[">>)
    /\ \E i \in 1..Len(outfile.text) :
           /\ Contains(outfile.text[i], <<"crc8_nibble", "_", "crc_table", SP, "+">>)
    /\ \E i \in 1..Len(outfile.text) :
           /\ Contains(outfile.text[i], <<"crc8_nibble", "_t", SP, "crc8_nibble", "_update">>)


\* ------------------------------------------------------------------------
\* header guard renaming, on headers that mention the guard elsewhere
\* ------------------------------------------------------------------------

MaxMentions == 1

\* a comment line that names the guard
GuardMention(m, tag) == <<SP, "*", SP, "see", SP>> \o OldGuard(m, tag)

\* a line may be put after line k of ls when that is not inside an
\* #ifdef __cplusplus block
OutsideCppBlock(ls, k) ==
    k = 0 \/ (~IsIfdefCplusplus(ls[k]) /\ (k = 1 \/ ~IsIfdefCplusplus(ls[k - 1])))

\* the generated header with up to n lines that mention the guard
RECURSIVE WithMentions(_, _, _)
WithMentions(n, m, tag) ==
    IF n = 0 THEN {HeaderTemplate(m, tag, TRUE)}
    ELSE LET prev == WithMentions(n - 1, m, tag)
         IN  prev \cup
             UNION {{Splice(ls, k, k, <<GuardMention(m, tag)>>) :
                        k \in {j \in 0..Len(ls) : OutsideCppBlock(ls, j)}} : ls \in prev}

GuardInputs(m, tag) == WithMentions(MaxMentions, m, tag)

InitGuard == InitConverter("header", {TRUE}, GuardInputs)

NextGuard == ReadText \/ Convert \/ WriteText \/ Unlink

SpecGuard == InitGuard /\ [][NextGuard]_vars

\* old_guard and new_guard of the running conversion
TheOldGuard == OldGuard(model, algotag)

TheNewGuard ==
    IF convention = "nested" THEN NewGuardNested(model, algotag)
    ELSE NewGuardFlat(model, algotag)

\* l with the guard renamed
Renamed(l) == StrReplace(l, TheOldGuard, TheNewGuard, -1)

\* l names the old guard somewhere else than inside the new guard
NamesOldGuard(l) ==
    \E p \in 1..Len(l) :
        /\ l[p] = TheOldGuard[1]
        /\ ~(/\ p < Len(l) /\ l[p + 1] = "PP"
             /\ (convention = "nested" => (p > 1 /\ l[p - 1] = "ACE_CRC_")))

Count(ls, l) == Cardinality({i \in 1..Len(ls) : ls[i] = l})

\* the #ifndef line of the input, the line after it and the #endif line of
\* the guard are in the output with the new guard, and none of the three
\* names the old guard any more
GuardLinesRenamed ==
    LET IsIfndef(l) == Contains(l, <<"#ifndef", SP>> \o TheOldGuard)
        IsEndif(l) == Contains(l, <<"#endif">>) /\ Contains(l, TheOldGuard)
        g == FirstIdx(input, IsIfndef)
        e == FirstIdx(input, IsEndif)
    IN  /\ g # 0 /\ g < Len(input) /\ e # 0
        /\ \A i \in {g, g + 1, e} :
              /\ Contains(Renamed(input[i]), TheNewGuard)
              /\ ~NamesOldGuard(Renamed(input[i]))
              /\ Count(outfile.text, Renamed(input[i])) >= 1
              /\ (i # g + 1 => Count(outfile.text, input[i]) = 0)

\* the number of lines of the output that still are the mention of the guard
\* is that of the input, less the one that came right after the #ifndef line
MentionsKept ==
    LET IsIfndef(l) == Contains(l, <<"#ifndef", SP>> \o TheOldGuard)
        g == FirstIdx(input, IsIfndef)
        M == GuardMention(model, algotag)
    IN  Count(outfile.text, M)
            = Count(input, M) - (IF input[g + 1] = M THEN 1 ELSE 0)

\* C15 as claimed: in either convention the guard renaming rewrites the
\* #ifndef line, the line after it and the #endif line of the guard, and
\* leaves every other line as it was even when it names the old guard
C15_ThreeLinesOnly ==
    (kind = "header" /\ outfile.exists) => (GuardLinesRenamed /\ MentionsKept)

\* C15 as amended: generate.py rewrites these three lines and no other;
\* generate_crc8_arduino.py rewrites them and every other line that names
\* the old guard
C15_GuardRenaming ==
    (kind = "header" /\ outfile.exists) =>
        /\ GuardLinesRenamed
        /\ (convention = "nested" => MentionsKept)
        /\ (convention = "flat" =>
              /\ \A i \in 1..Len(outfile.text) : ~NamesOldGuard(outfile.text[i])
              /\ Count(outfile.text, Renamed(GuardMention(model, algotag)))
                     = Count(input, GuardMention(model, algotag)))

\* a nested header whose comment names the guard has been converted: the
\* comment is as it was, the #ifndef line has the new guard
C15_Witness ==
    /\ convention = "nested" /\ kind = "header" /\ outfile.exists
    /\ model = "crc-8" /\ algotag = "nibble"
    /\ input[2] = GuardMention(model, algotag)
    /\ Count(outfile.text, GuardMention(model, algotag)) = 1
    /\ Count(outfile.text, <<"#ifndef", SP, "ACE_CRC_", "CRC8_NIBBLE_H", "PP">>) = 1
    /\ Count(outfile.text, <<"#ifndef", SP, "CRC8_NIBBLE_H">>) = 0


\* ------------------------------------------------------------------------
\* the storage qualifier: headers with indented declarations
\* ------------------------------------------------------------------------

MaxIndent == 2

\* n spaces
RECURSIVE Spaces(_)
Spaces(n) == IF n = 0 THEN <<>> ELSE <<SP>> \o Spaces(n - 1)

\* declarations with and without the qualifier in front
Declarations ==
    { <<"static", SP, "inline", SP, "crc_t", SP, "crc_init", "(void)">>,
      <<"static", SP, "x">>,
      <<"static">>,
      <<"inline", SP, "static", SP, "crc_t", SP, "crc_init", "(void)">> }

\* the generated header with its declaration and its CRC_ALGO define indented
StaticInputs(m, tag) ==
    {[HeaderTemplate(m, tag, TRUE) EXCEPT ![8] = Spaces(a) \o @, ![10] = Spaces(b) \o d] :
        a \in 0..MaxIndent, b \in 0..MaxIndent, d \in Declarations}

InitStatic == InitConverter("header", {TRUE}, StaticInputs)

NextStatic == ReadText \/ Convert \/ WriteText \/ Unlink

SpecStatic == InitStatic /\ [][NextStatic]_vars

\* the number of spaces l begins with
RECURSIVE LeadingSpaces(_)
LeadingSpaces(l) ==
    IF l # <<>> /\ Head(l) = SP THEN 1 + LeadingSpaces(Tail(l)) ELSE 0

\* l as the reader of the output finds it: with the symbol prefix in the
\* flat convention
Emitted(l) ==
    IF convention = "flat"
    THEN wreplace(l, Fileroot(model, algotag), FilerootUpper(model, algotag))
    ELSE l

\* l without the one "static " that follows its indentation, if there is one
WithoutQualifier(l) ==
    LET k == LeadingSpaces(l)
    IN  IF Len(l) >= k + 2 /\ l[k + 1] = "static" /\ l[k + 2] = SP
        THEN SubSeq(l, 1, k) \o SubSeq(l, k + 3, Len(l))
        ELSE l

\* C16: no line of a written header begins, after its indentation, with
\* "static "; the declaration of the input is in the output with one leading
\* "static " less, its indentation and the rest of it kept; and the
\* #define CRC_ALGO_* line is in the output as a const declaration, not as a
\* #define
C16_NoLeadingStatic ==
    (kind = "header" /\ outfile.exists) =>
        /\ \A i \in 1..Len(outfile.text) :
              /\ ~StartsWith(LStrip(outfile.text[i]), <<"static", SP>>)
              /\ ~StartsWith(LStrip(outfile.text[i]), <<"#define", SP, "CRC_ALGO">>)
        /\ Count(outfile.text, Emitted(WithoutQualifier(input[10]))) = 1
        /\ Count(outfile.text,
                 Emitted(<<"const", SP, "uint8_t", SP, "CRC_ALGO", "_TABLE_DRIVEN",
                           SP, "=", SP, "1", ";">>)) = 1

\* a nested header whose declaration is indented by two spaces has been
\* written with the declaration indented by two spaces and without "static "
C16_Witness ==
    /\ convention = "nested" /\ kind = "header" /\ outfile.exists
    /\ input[10] = <<SP, SP, "static", SP, "inline", SP, "crc_t", SP, "crc_init", "(void)">>
    /\ Count(outfile.text, <<SP, SP, "inline", SP, "crc_t", SP, "crc_init", "(void)">>) = 1
    /\ Count(outfile.text, <<"const", SP, "uint8_t", SP, "CRC_ALGO", "_TABLE_DRIVEN",
                             SP, "=", SP, "1", ";">>) = 1


\* ------------------------------------------------------------------------
\* the loop variable: sources with declarations in several shapes
\* ------------------------------------------------------------------------

\* "unsigned int <v>;" after n spaces, with or without a comment behind it
Declaration(v, n, commented) ==
    Spaces(n) \o UnsignedIntDecl(v)
        \o (IF commented THEN <<SP, "//", SP, "index">> ELSE <<>>)

\* a later line that declares one of the two variables once more
LaterLines ==
    {<<>>, <<UnsignedIntDecl("i")>>, <<UnsignedIntDecl("tbl_idx")>>}

\* the generated source with its two declarations indented and commented,
\* and with a declaration repeated after the function body
LoopInputs(m, tag) ==
    {[SourceTemplate(m, tag) EXCEPT ![8] = Declaration("i", a, c),
                                    ![9] = Declaration("tbl_idx", b, d)] \o later :
        a \in 0..MaxIndent, b \in 0..MaxIndent, c \in BOOLEAN, d \in BOOLEAN,
        later \in LaterLines}

InitLoopVar == InitConverter("source", BOOLEAN, LoopInputs)

NextLoopVar == ReadText \/ Convert \/ WriteText \/ Unlink

SpecLoopVar == InitLoopVar /\ [][NextLoopVar]_vars

\* C17: in a written source, of the lines of the input that contain
\* "unsigned int <loopVar>;" the first one has become "    uint8_t <loopVar>;"
\* and the later ones are as they were, and so are the declarations of the
\* other variable; with the PROGMEM toggle on and off, in both conventions
C17_LoopVarNarrowed ==
    (kind = "source" /\ outfile.exists) =>
        LET v == LoopVar(algotag)
            o == IF v = "i" THEN "tbl_idx" ELSE "i"
            first == IF v = "i" THEN input[8] ELSE input[9]
            other == IF v = "i" THEN input[9] ELSE input[8]
        IN  /\ Count(outfile.text, Uint8Decl(v)) = 1
            /\ Count(outfile.text, first) = Count(input, first) - 1
            /\ Count(outfile.text, UnsignedIntDecl(v))
                   = Count(input, UnsignedIntDecl(v)) - (IF first = UnsignedIntDecl(v) THEN 1 ELSE 0)
            /\ Count(outfile.text, other) = Count(input, other)
            /\ Count(outfile.text, UnsignedIntDecl(o)) = Count(input, UnsignedIntDecl(o))
            /\ Count(outfile.text, Uint8Decl(o)) = 0
            /\ \A i \in 1..Len(outfile.text) :
                   Contains(outfile.text[i], <<"uint8_t", SP, v, ";">>)
                       => outfile.text[i] = Uint8Decl(v)

\* a nibble source read from program memory, its tbl_idx declared after two
\* spaces with a comment behind and once more later: the first declaration is
\* narrowed, the later one and the declaration of i are as they were
C17_Witness ==
    /\ kind = "source" /\ outfile.exists /\ algotag = "nibble" /\ progmem
    /\ Len(input) >= 9
    /\ input[9] = <<SP, SP, "unsigned", SP, "int", SP, "tbl_idx", ";", SP, "//", SP, "index">>
    /\ Len(input) = 11 /\ input[11] = UnsignedIntDecl("tbl_idx")
    /\ Count(outfile.text, Uint8Decl("tbl_idx")) = 1
    /\ Count(outfile.text, UnsignedIntDecl("tbl_idx")) = 1
    /\ Count(outfile.text, input[8]) = 1
    /\ Count(outfile.text, input[9]) = 0


\* ------------------------------------------------------------------------
\* the provenance comment of a converted header
\* ------------------------------------------------------------------------

\* the lines "Auto converted to ..." of the running convention are in ls,
\* one after the other
HasProvenance(ls) ==
    LET c == IF convention = "nested" THEN autogen_comment_lines ELSE autogen_comment
    IN  \E i \in 1..Len(ls) :
            /\ i + Len(c) - 1 <= Len(ls)
            /\ SubSeq(ls, i, i + Len(c) - 1) = c

\* C18: the provenance comment is in every written header, also when the
\* input has no line that closes a comment
C18_ProvenanceAlwaysPresent ==
    (kind = "header" /\ outfile.exists) => HasProvenance(outfile.text)


\* ------------------------------------------------------------------------
\* the two #ifdef __cplusplus blocks of a nested header
\* ------------------------------------------------------------------------

\* the places of the #ifdef __cplusplus lines of ls
IfdefPlaces(ls) == {i \in 1..Len(ls) : IsIfdefCplusplus(ls[i])}

\* ls has exactly two #ifdef __cplusplus lines, each the first of three
\* lines that end with its #endif, the one block after the other
TwoRuns(ls) ==
    /\ Cardinality(IfdefPlaces(ls)) = 2
    /\ \A p \in IfdefPlaces(ls) : p + 2 <= Len(ls) /\ ls[p + 2] = <<"#endif">>
    /\ \A p, q \in IfdefPlaces(ls) : p < q => p + 3 <= q

\* lines that stand for the two blocks, and that no step looks for
FirstMark == <<"@first">>

SecondMark == <<"@second">>

\* ls with its first block replaced by FirstMark and its second by SecondMark
Marked(ls) ==
    LET p == CHOOSE i \in IfdefPlaces(ls) : \A j \in IfdefPlaces(ls) : i <= j
        q == CHOOSE i \in IfdefPlaces(ls) : \A j \in IfdefPlaces(ls) : j <= i
    IN  SubSeq(ls, 1, p - 1) \o <<FirstMark>> \o SubSeq(ls, p + 3, q - 1)
            \o <<SecondMark>> \o SubSeq(ls, q + 3, Len(ls))

\* ls with the line mark replaced by the lines of block
Unmarked(ls, mark, block) ==
    LET i == CHOOSE j \in 1..Len(ls) : ls[j] = mark
    IN  SubSeq(ls, 1, i - 1) \o block \o SubSeq(ls, i + 1, Len(ls))

\* C19: a nested header written from an input with its two blocks is what
\* the conversion makes of the other lines, with the two namespace-open
\* lines where the first block was and the one-shot block with the two
\* namespace-close lines where the second was: three lines are taken out at
\* each place, and no other line is removed or moved
C19_BlocksReplacedInPlace ==
    (convention = "nested" /\ kind = "header" /\ outfile.exists /\ TwoRuns(input)) =>
        LET rest == convert_h_to_hpp(Marked(input), model, algotag)
            fr == Fileroot(model, algotag)
        IN  /\ Count(rest, FirstMark) = 1 /\ Count(rest, SecondMark) = 1
            /\ outfile.text
                   = Unmarked(Unmarked(rest, FirstMark, ns_open_block(fr)),
                              SecondMark, oneshot_block(fr))
            /\ IfdefPlaces(outfile.text) = {}
            /\ Len(outfile.text) = Len(rest) + 1 + (Len(oneshot_block(fr)) - 1)

\* the generated header of crc-8 nibble, whole, has been converted: the
\* namespace is opened after the #define of the guard and closed before
\* the #endif of the guard
C19_Witness ==
    /\ convention = "nested" /\ kind = "header" /\ outfile.exists
    /\ model = "crc-8" /\ algotag = "nibble"
    /\ input = HeaderTemplate(model, algotag, TRUE)
    /\ TwoRuns(input)
    /\ \E i \in 1..Len(outfile.text) - 2 :
          /\ outfile.text[i] = <<"#define", SP, "ACE_CRC_", "CRC8_NIBBLE_H", "PP">>
          /\ SubSeq(outfile.text, i + 1, i + 2) = ns_open_block("crc8_nibble")
    /\ outfile.text[Len(outfile.text) - 1] = <<"}", SP, "//", SP, "ace_crc">>


\* ------------------------------------------------------------------------
\* inputs that lack one of the optional anchors
\* ------------------------------------------------------------------------

\* the generated file the input was made from
Template ==
    IF kind = "header" THEN HeaderTemplate(model, algotag, TRUE)
    ELSE SourceTemplate(model, algotag)

\* the places of the optional anchors in the generated file: the
\* #define CRC_ALGO_* line and the typedef of a header; the self-include, the
\* table initializer and the declaration of the loop variable of a source
OptionalAnchors ==
    IF kind = "header" THEN {8, 9}
    ELSE {3, 6, IF LoopVar(algotag) = "i" THEN 8 ELSE 9}

\* l is a line the conversion makes from the anchor at place a, or puts in
\* because that anchor is there
MadeFromAnchor(a, l) ==
    IF kind = "header"
    THEN IF a = 8 THEN Contains(l, <<"const", SP, "uint8_t">>)
         ELSE Contains(l, <<"typedef">>)
    ELSE CASE a = 3 ->
                  \/ Contains(l, <<QuotedHpp(Fileroot(model, algotag))>>)
                  \/ /\ convention = "nested" /\ ~NoProgmem(algotag, progmem)
                     /\ \E i \in 1..Len(pgm_block) : l = pgm_block[i]
           [] a = 6 -> Contains(l, <<"=", SP, "{">>)
           [] OTHER -> l = Uint8Decl(LoopVar(algotag))

\* what the conversion makes of the whole generated file, less the lines
\* that come from the anchor at place a
WithoutAnchor(a) ==
    SelectSeq(ConversionOf(Template), LAMBDA l : ~MadeFromAnchor(a, l))

\* C20: when the input is the generated file without its loop-variable
\* declaration, its table initializer, its self-include, its typedef or its
\* #define CRC_ALGO_* line, the conversion does not fail, and the buffer it
\* ends with and writes is what it makes of the whole file less the lines
\* that come from the missing anchor: every other step has run
C20_OptionalAnchorsSkipped ==
    \A a \in OptionalAnchors :
        input = Without(Template, {a}) =>
            /\ pc # "failed"
            /\ (pc \in {"converted", "written", "done"} => lines = WithoutAnchor(a))
            /\ (outfile.exists => outfile.text = WithoutAnchor(a))

\* a nibble source without its table initializer has been written for
\* program memory: no line has PROGMEM, the index is read with pgm_read_byte
C20_Witness ==
    /\ kind = "source" /\ convention = "nested" /\ model = "crc-8"
    /\ algotag = "nibble" /\ progmem
    /\ input = Without(SourceTemplate(model, algotag), {6})
    /\ outfile.exists
    /\ ~HasToken(outfile.text, "PROGMEM")
    /\ HasToken(outfile.text, "pgm_read_byte")
    /\ Count(outfile.text, Uint8Decl("tbl_idx")) = 1


\* ------------------------------------------------------------------------
\* the namespaces of a nested file
\* ------------------------------------------------------------------------

\* the places of the lines of ls that are l
Places(ls, l) == {i \in 1..Len(ls) : ls[i] = l}

\* ls has the line open as often as the line close, and every close has
\* an open of its own before it
Balanced(ls, open, close) ==
    /\ Cardinality(Places(ls, open)) = Cardinality(Places(ls, close))
    /\ \A j \in Places(ls, close) :
           Cardinality({i \in Places(ls, open) : i < j})
               >= Cardinality({i \in Places(ls, close) : i <= j})

\* both namespaces of the running conversion are balanced in ls
NamespacesBalanced(ls) ==
    LET fr == Fileroot(model, algotag)
    IN  /\ Balanced(ls, <<"namespace", SP, "ace_crc", SP, "{">>,
                        <<"}", SP, "//", SP, "ace_crc">>)
        /\ Balanced(ls, <<"namespace", SP, fr, SP, "{">>,
                        <<"}", SP, "//", SP, fr>>)

\* what does hold: every nested source that is written is balanced, with
\* and without a blank line and on both paths, and so is every nested header
\* whose input has no #ifdef __cplusplus line or at least two
BalancedButForOneIfdef ==
    (convention = "nested" /\ outfile.exists
        /\ (kind = "header" => Cardinality(IfdefPlaces(input)) # 1))
        => NamespacesBalanced(outfile.text)

\* C21: every file written in the nested convention has as many
\* namespace-open lines as namespace-close lines, each open before its
\* close, whatever the number of #ifdef __cplusplus lines of a header
C21_NamespacesBalanced ==
    (convention = "nested" /\ outfile.exists) => NamespacesBalanced(outfile.text)

====
